---- MODULE Spec2Model ----
(***************************************************************************)
(* The borrowing engine of the library management system:                  *)
(* LibraryManagementSystem of library_system.py (books, members,           *)
(* transactions, the three id counters, the JSON snapshot) and its public  *)
(* operations.  Ids are the counter values (B1000 is book 1000, M100 is    *)
(* member 100, T10000 is transaction 10000); datetime values are whole     *)
(* hours since the start of the run; the text attributes of a book or a    *)
(* member (title, author, isbn, genre, name, email, phone) and a member's  *)
(* membership_date, which no operation reads, are left out of the          *)
(* records, and so are book_queue and transaction_stack, which are never   *)
(* read and never saved.                                                   *)
(***************************************************************************)
EXTENDS Integers, Sequences, FiniteSets, TLC

(* Bounds of the model: books, members and transactions ever created.    *)
(* Spec follows one member and one book through up to four loans;         *)
(* SpecWide and SpecClock have two books, two members and two loans.      *)
MaxBooks == 1
MaxMembers == 1
MaxTxns == 4
WideBooks == 2
WideMembers == 2
WideTxns == 2

(* Program constants. *)
InitialBookCounter == 1000
InitialMemberCounter == 100
InitialTransactionCounter == 10000
BorrowLimit == 3
LoanDays == 14
FinePerDay == 1
HoursPerDay == 24
None == -1

VARIABLES books, members, transactions,
          book_counter, member_counter, transaction_counter,
          now, disk, handlers

vars == <<books, members, transactions,
          book_counter, member_counter, transaction_counter,
          now, disk, handlers>>

(* The in-memory store as one value. *)
Store ==
  [books |-> books, members |-> members, transactions |-> transactions,
   book_counter |-> book_counter, member_counter |-> member_counter,
   transaction_counter |-> transaction_counter]

NoFile == [exists |-> FALSE]

(* A file that json.load cannot read: a write that was cut short. *)
Truncated == [exists |-> TRUE, data |-> [truncated |-> TRUE]]

(* dict[k] = v on a dict held as a function. *)
DictSet(d, k, v) == [x \in DOMAIN d \cup {k} |-> IF x = k THEN v ELSE d[x]]

(* del dict[k] *)
DictDel(d, k) == [x \in DOMAIN d \ {k} |-> d[x]]

(* list.remove(x) on a list that holds x: the first occurrence goes. *)
RECURSIVE ListRemove(_, _)
ListRemove(s, x) ==
  IF s = <<>> THEN <<>>
  ELSE IF Head(s) = x THEN Tail(s)
  ELSE <<Head(s)>> \o ListRemove(Tail(s), x)

ListHas(s, x) == \E i \in 1..Len(s) : s[i] = x

Book(total_copies) ==
  [total_copies |-> total_copies, available_copies |-> total_copies,
   is_available |-> TRUE]

Member ==
  [borrowed_books |-> <<>>, is_active |-> TRUE]

Transaction(member_id, book_id, borrow_date, due_date) ==
  [member_id |-> member_id, book_id |-> book_id,
   borrow_date |-> borrow_date, due_date |-> due_date,
   return_date |-> None, fine |-> 0]

(* What an operation leaves behind: the store, whether save_data ran, and  *)
(* what the caller gets (a returned value, or an exception).               *)
Outcome(S, saved, ok, value, raised) ==
  [store |-> S, saved |-> saved, ok |-> ok, value |-> value, raised |-> raised]

Returned(S, saved, ok, value) == Outcome(S, saved, ok, value, "")

add_book(S, total_copies) ==
  LET book_id == S.book_counter
  IN Returned([S EXCEPT !.book_counter = @ + 1,
                        !.books = DictSet(@, book_id, Book(total_copies))],
              TRUE, TRUE, book_id)

(* setattr(obj, key, value) for a key hasattr finds. *)
SetAttr(obj, key, value) ==
  IF key \in DOMAIN obj THEN [obj EXCEPT ![key] = value] ELSE obj

update_book(S, book_id, key, value) ==
  IF book_id \notin DOMAIN S.books THEN Returned(S, FALSE, FALSE, "False")
  ELSE Returned([S EXCEPT !.books[book_id] = SetAttr(@, key, value)],
                TRUE, TRUE, "True")

(* A delete_book that does not look at the transactions. *)
delete_book_Unchecked(S, book_id) ==
  IF book_id \notin DOMAIN S.books THEN Returned(S, FALSE, FALSE, "False")
  ELSE Returned([S EXCEPT !.books = DictDel(@, book_id)], TRUE, TRUE, "True")

delete_book(S, book_id) ==
  IF book_id \notin DOMAIN S.books THEN Returned(S, FALSE, FALSE, "False")
  ELSE LET active_transactions ==
             {t \in DOMAIN S.transactions :
                /\ S.transactions[t].book_id = book_id
                /\ S.transactions[t].return_date = None}
       IN IF active_transactions # {} THEN Returned(S, FALSE, FALSE, "False")
          ELSE Returned([S EXCEPT !.books = DictDel(@, book_id)],
                        TRUE, TRUE, "True")

register_member(S) ==
  LET member_id == S.member_counter
  IN Returned([S EXCEPT !.member_counter = @ + 1,
                        !.members = DictSet(@, member_id, Member)],
              TRUE, TRUE, member_id)

update_member(S, member_id, key, value) ==
  IF member_id \notin DOMAIN S.members THEN Returned(S, FALSE, FALSE, "False")
  ELSE Returned([S EXCEPT !.members[member_id] = SetAttr(@, key, value)],
                TRUE, TRUE, "True")

(* A BorrowCheck that refuses only a member who holds more than 3. *)
BorrowCheck_LimitPassed(S, member_id, book_id) ==
  IF member_id \notin DOMAIN S.members \/ book_id \notin DOMAIN S.books
    THEN "Invalid member or book ID"
  ELSE IF ~S.members[member_id].is_active
    THEN "Member account is inactive"
  ELSE IF S.books[book_id].available_copies <= 0
    THEN "Book not available"
  ELSE IF Len(S.members[member_id].borrowed_books) > BorrowLimit
    THEN "Member has reached maximum borrowing limit (3 books)"
  ELSE ""

(* A BorrowCheck that does not look at the copies. *)
BorrowCheck_IgnoresCopies(S, member_id, book_id) ==
  IF member_id \notin DOMAIN S.members \/ book_id \notin DOMAIN S.books
    THEN "Invalid member or book ID"
  ELSE IF ~S.members[member_id].is_active
    THEN "Member account is inactive"
  ELSE IF Len(S.members[member_id].borrowed_books) >= BorrowLimit
    THEN "Member has reached maximum borrowing limit (3 books)"
  ELSE ""

(* The precondition checks of borrow_book, in the order of the code: the   *)
(* message of the first one that fails, "" when all pass.                  *)
BorrowCheck(S, member_id, book_id) ==
  IF member_id \notin DOMAIN S.members \/ book_id \notin DOMAIN S.books
    THEN "Invalid member or book ID"
  ELSE IF ~S.members[member_id].is_active
    THEN "Member account is inactive"
  ELSE IF S.books[book_id].available_copies <= 0
    THEN "Book not available"
  ELSE IF Len(S.members[member_id].borrowed_books) >= BorrowLimit
    THEN "Member has reached maximum borrowing limit (3 books)"
  ELSE ""

(* A BorrowApply that does not note the loan on the member. *)
BorrowApply_NoAppend(S, member_id, book_id, t) ==
  LET transaction_id == S.transaction_counter
      copies == S.books[book_id].available_copies - 1
  IN [S EXCEPT
        !.transaction_counter = @ + 1,
        !.transactions =
           DictSet(@, transaction_id,
                   Transaction(member_id, book_id, t,
                               t + LoanDays * HoursPerDay)),
        !.books[book_id].available_copies = copies,
        !.books[book_id].is_available = IF copies = 0 THEN FALSE ELSE @]

(* A BorrowApply that never touches is_available. *)
BorrowApply_KeepsFlag(S, member_id, book_id, t) ==
  LET transaction_id == S.transaction_counter
  IN [S EXCEPT
        !.transaction_counter = @ + 1,
        !.transactions =
           DictSet(@, transaction_id,
                   Transaction(member_id, book_id, t,
                               t + LoanDays * HoursPerDay)),
        !.books[book_id].available_copies = @ - 1,
        !.members[member_id].borrowed_books = Append(@, transaction_id)]

(* The mutation of a borrow_book call that passed its checks, at time t.   *)
BorrowApply(S, member_id, book_id, t) ==
  LET transaction_id == S.transaction_counter
      borrow_date == t
      due_date == borrow_date + LoanDays * HoursPerDay
      copies == S.books[book_id].available_copies - 1
  IN [S EXCEPT
        !.transaction_counter = @ + 1,
        !.transactions = DictSet(@, transaction_id,
            Transaction(member_id, book_id, borrow_date, due_date)),
        !.books[book_id].available_copies = copies,
        !.books[book_id].is_available = IF copies = 0 THEN FALSE ELSE @,
        !.members[member_id].borrowed_books = Append(@, transaction_id)]

(* A borrow_book that draws the transaction id before it validates. *)
borrow_book_IdFirst(S, member_id, book_id, t) ==
  LET why == BorrowCheck(S, member_id, book_id)
      S1 == [S EXCEPT !.transaction_counter = @ + 1]
  IN IF why # "" THEN Returned(S1, FALSE, FALSE, why)
     ELSE Returned(BorrowApply(S, member_id, book_id, t), TRUE, TRUE,
                   S.transaction_counter)

borrow_book(S, member_id, book_id, t) ==
  LET why == BorrowCheck(S, member_id, book_id)
  IN IF why # "" THEN Returned(S, FALSE, FALSE, why)
     ELSE Returned(BorrowApply(S, member_id, book_id, t),
                   TRUE, TRUE, S.transaction_counter)

(* A fine that counts a started day as a whole one. *)
Fine_StartedDays(return_date, due_date) ==
  IF return_date > due_date
    THEN ((return_date - due_date + HoursPerDay - 1) \div HoursPerDay)
           * FinePerDay
    ELSE 0

(* The fine of a return at return_date: timedelta.days of the overdue      *)
(* time, one unit a day; the 0.0 of the constructor when not overdue.      *)
Fine(return_date, due_date) ==
  IF return_date > due_date
    THEN ((return_date - due_date) \div HoursPerDay) * FinePerDay
    ELSE 0

(* A ReturnCheck that only looks the transaction up. *)
ReturnCheck_ExistsOnly(S, transaction_id) ==
  IF transaction_id \notin DOMAIN S.transactions
    THEN "Invalid transaction ID"
  ELSE ""

(* The precondition checks of return_book: the message of the first one   *)
(* that fails, "" when both pass.                                          *)
ReturnCheck(S, transaction_id) ==
  IF transaction_id \notin DOMAIN S.transactions
    THEN "Invalid transaction ID"
  ELSE IF S.transactions[transaction_id].return_date # None
    THEN "Book already returned"
  ELSE ""

(* A ReturnApply that gives no copy back. *)
ReturnApply_NoCopyBack(S, transaction_id, t) ==
  LET transaction == S.transactions[transaction_id]
      stamped == [transaction EXCEPT !.return_date = t,
                                     !.fine = Fine(t, transaction.due_date)]
  IN Returned([S EXCEPT
                 !.transactions[transaction_id] = stamped,
                 !.books[transaction.book_id].is_available = TRUE,
                 !.members[transaction.member_id].borrowed_books =
                    ListRemove(@, transaction_id)],
              TRUE, TRUE, stamped.fine)

(* A ReturnApply that leaves the transaction in borrowed_books. *)
ReturnApply_KeepsBorrowed(S, transaction_id, t) ==
  LET transaction == S.transactions[transaction_id]
      stamped == [transaction EXCEPT !.return_date = t,
                                     !.fine = Fine(t, transaction.due_date)]
  IN Returned([S EXCEPT
                 !.transactions[transaction_id] = stamped,
                 !.books[transaction.book_id].available_copies = @ + 1,
                 !.books[transaction.book_id].is_available = TRUE],
              TRUE, TRUE, stamped.fine)

(* The mutation of a return_book call that passed its checks, at time t,  *)
(* statement by statement: a dict lookup of a missing key or a            *)
(* list.remove of a missing item raises and leaves what was done before.  *)
ReturnApply(S, transaction_id, t) ==
  LET transaction == S.transactions[transaction_id]
      stamped == [transaction EXCEPT !.return_date = t,
                                     !.fine = Fine(t, transaction.due_date)]
      S1 == [S EXCEPT !.transactions[transaction_id] = stamped]
  IN
  IF transaction.book_id \notin DOMAIN S1.books
    THEN Outcome(S1, FALSE, FALSE, "", "KeyError")
  ELSE
  LET S2 == [S1 EXCEPT
               !.books[transaction.book_id].available_copies = @ + 1,
               !.books[transaction.book_id].is_available = TRUE]
  IN
  IF transaction.member_id \notin DOMAIN S2.members
    THEN Outcome(S2, FALSE, FALSE, "", "KeyError")
  ELSE IF ~ListHas(S2.members[transaction.member_id].borrowed_books,
                   transaction_id)
    THEN Outcome(S2, FALSE, FALSE, "", "ValueError")
  ELSE
    Returned([S2 EXCEPT !.members[transaction.member_id].borrowed_books =
                          ListRemove(@, transaction_id)],
             TRUE, TRUE, stamped.fine)

(* A return_book that stamps whatever transaction it finds. *)
return_book_Restamps(S, transaction_id, t) ==
  IF transaction_id \notin DOMAIN S.transactions
    THEN Returned(S, FALSE, FALSE, "Invalid transaction ID")
    ELSE ReturnApply(S, transaction_id, t)

return_book(S, transaction_id, t) ==
  LET why == ReturnCheck(S, transaction_id)
  IN IF why # "" THEN Returned(S, FALSE, FALSE, why)
     ELSE ReturnApply(S, transaction_id, t)

(* datetime.isoformat and datetime.fromisoformat: the text of a datetime   *)
(* and the datetime of a text.  Null is what JSON holds for None.          *)
Null == <<>>
IsoFormat(t) == <<"iso", t>>
FromIsoFormat(text) == text[2]

BookToDict(book) ==
  [total_copies |-> book.total_copies,
   available_copies |-> book.available_copies,
   is_available |-> book.is_available]

BookFromDict(data) ==
  [Book(data.total_copies) EXCEPT
     !.available_copies = data.available_copies,
     !.is_available = data.is_available]

MemberToDict(member) ==
  [borrowed_books |-> member.borrowed_books, is_active |-> member.is_active]

MemberFromDict(data) ==
  [Member EXCEPT !.borrowed_books = data.borrowed_books,
                 !.is_active = data.is_active]

TransactionToDict(transaction) ==
  [member_id |-> transaction.member_id,
   book_id |-> transaction.book_id,
   borrow_date |-> IsoFormat(transaction.borrow_date),
   due_date |-> IsoFormat(transaction.due_date),
   return_date |-> IF transaction.return_date # None
                     THEN IsoFormat(transaction.return_date) ELSE Null,
   fine |-> transaction.fine]

(* A Transaction.from_dict that leaves the fine of the constructor. *)
TransactionFromDict_FineLost(data) ==
  [Transaction(data.member_id, data.book_id,
               FromIsoFormat(data.borrow_date),
               FromIsoFormat(data.due_date)) EXCEPT
     !.return_date = IF data.return_date # Null
                       THEN FromIsoFormat(data.return_date) ELSE @]

TransactionFromDict(data) ==
  [Transaction(data.member_id, data.book_id,
               FromIsoFormat(data.borrow_date),
               FromIsoFormat(data.due_date)) EXCEPT
     !.return_date = IF data.return_date # Null
                       THEN FromIsoFormat(data.return_date) ELSE @,
     !.fine = data.fine]

(* save_data: the snapshot file holds the dicts of the whole store and    *)
(* the three counters.                                                     *)
Snapshot(S) ==
  [exists |-> TRUE,
   data |->
     [books |-> [k \in DOMAIN S.books |-> BookToDict(S.books[k])],
      members |-> [k \in DOMAIN S.members |-> MemberToDict(S.members[k])],
      transactions |->
        [k \in DOMAIN S.transactions |->
           TransactionToDict(S.transactions[k])],
      book_counter |-> S.book_counter,
      member_counter |-> S.member_counter,
      transaction_counter |-> S.transaction_counter]]

(* The fields of an instance before its constructor loads the file. *)
EmptyStore ==
  [books |-> <<>>, members |-> <<>>, transactions |-> <<>>,
   book_counter |-> InitialBookCounter,
   member_counter |-> InitialMemberCounter,
   transaction_counter |-> InitialTransactionCounter]

(* A load_data that leaves the counters of the new instance as they are. *)
load_data_NoCounters(S, file) ==
  IF ~file.exists \/ file = Truncated THEN S
  ELSE [S EXCEPT
          !.books =
             [k \in DOMAIN file.data.books |->
                BookFromDict(file.data.books[k])],
          !.members =
             [k \in DOMAIN file.data.members |->
                MemberFromDict(file.data.members[k])],
          !.transactions =
             [k \in DOMAIN file.data.transactions |->
                TransactionFromDict(file.data.transactions[k])]]

(* A dict that from_dict reads without a KeyError. *)
BookDictOk(data) ==
  {"total_copies", "available_copies", "is_available"} \subseteq DOMAIN data

MemberDictOk(data) ==
  {"borrowed_books", "is_active"} \subseteq DOMAIN data

TransactionDictOk(data) ==
  {"member_id", "book_id", "borrow_date", "due_date", "return_date", "fine"}
    \subseteq DOMAIN data

(* The assignments of load_data to an instance with fields S, in order,   *)
(* up to the first that raises: each right-hand side is built whole       *)
(* before it is assigned, and the except clause prints the error and      *)
(* keeps what was assigned before it.                                     *)
LoadBooks(S, data) ==
  IF "books" \in DOMAIN data
       /\ \A k \in DOMAIN data.books : BookDictOk(data.books[k])
    THEN [ok |-> TRUE,
          store |-> [S EXCEPT !.books =
                       [k \in DOMAIN data.books |->
                          BookFromDict(data.books[k])]]]
    ELSE [ok |-> FALSE, store |-> S]

LoadMembers(S, data) ==
  IF "members" \in DOMAIN data
       /\ \A k \in DOMAIN data.members : MemberDictOk(data.members[k])
    THEN [ok |-> TRUE,
          store |-> [S EXCEPT !.members =
                       [k \in DOMAIN data.members |->
                          MemberFromDict(data.members[k])]]]
    ELSE [ok |-> FALSE, store |-> S]

LoadTransactions(S, data) ==
  IF "transactions" \in DOMAIN data
       /\ \A k \in DOMAIN data.transactions :
            TransactionDictOk(data.transactions[k])
    THEN [ok |-> TRUE,
          store |-> [S EXCEPT !.transactions =
                       [k \in DOMAIN data.transactions |->
                          TransactionFromDict(data.transactions[k])]]]
    ELSE [ok |-> FALSE, store |-> S]

LoadCounters(S, data) ==
  IF "book_counter" \notin DOMAIN data THEN S
  ELSE IF "member_counter" \notin DOMAIN data
    THEN [S EXCEPT !.book_counter = data.book_counter]
  ELSE IF "transaction_counter" \notin DOMAIN data
    THEN [S EXCEPT !.book_counter = data.book_counter,
                   !.member_counter = data.member_counter]
  ELSE [S EXCEPT !.book_counter = data.book_counter,
                 !.member_counter = data.member_counter,
                 !.transaction_counter = data.transaction_counter]

(* load_data on an instance with fields S: nothing without a file,        *)
(* nothing but a printed message when json.load raises, else the three    *)
(* collections and then the three counters of the file, as far as they    *)
(* load.                                                                   *)
load_data(S, file) ==
  IF ~file.exists \/ file = Truncated THEN S
  ELSE LET b == LoadBooks(S, file.data)
           m == LoadMembers(b.store, file.data)
           t == LoadTransactions(m.store, file.data)
       IN IF ~b.ok THEN b.store
          ELSE IF ~m.ok THEN m.store
          ELSE IF ~t.ok THEN t.store
          ELSE LoadCounters(t.store, file.data)

(* A save_data whose exception the operation swallows. *)
SaveRaises_Swallowed(r) ==
  [r EXCEPT !.saved = FALSE]

(* A save_data that raises.  An operation calls save_data last, once it   *)
(* is through with the store, and catches nothing: the call that would    *)
(* have returned r ends with the exception instead, and the file is as it *)
(* was when open() raised, cut short when json.dump did.                  *)
SaveRaises(r) ==
  IF r.saved THEN Outcome(r.store, FALSE, FALSE, "", "OSError") ELSE r

FilesAfter(file) == {file, Truncated}

(* One call of an operation: the store it leaves and the file it leaves.   *)
(* What the caller gets is r.ok, r.value and r.raised.                     *)
Do(r) ==
  /\ books' = r.store.books
  /\ members' = r.store.members
  /\ transactions' = r.store.transactions
  /\ book_counter' = r.store.book_counter
  /\ member_counter' = r.store.member_counter
  /\ transaction_counter' = r.store.transaction_counter
  /\ disk' = IF r.saved THEN Snapshot(r.store) ELSE disk
  /\ UNCHANGED <<now, handlers>>

(* The inputs the callers are given: the ids issued so far and, of each    *)
(* kind, the next one, which names nothing yet.                            *)
BookIdsIn == InitialBookCounter .. book_counter
MemberIdsIn == InitialMemberCounter .. member_counter
TransactionIdsIn == InitialTransactionCounter .. transaction_counter
CopiesIn == {0, 1, BorrowLimit + 1}
WideCopiesIn == {1, 2}

(* The clock readings of SpecClock, in hours: the start, the due date of  *)
(* a loan made at the start, one hour after it, two days and 23 hours     *)
(* after it, three days after it, and day 20.                             *)
Instants ==
  {d[1] * HoursPerDay + d[2] :
     d \in {<<0, 0>>, <<14, 0>>, <<14, 1>>, <<16, 23>>, <<17, 0>>, <<20, 0>>}}

(* update_book and update_member take any attribute name: "title" and     *)
(* "name" stand for the text attributes, which the records leave out.     *)
BookUpdatesIn ==
  {<<"title", "x">>, <<"total_copies", 2>>, <<"available_copies", 1>>,
   <<"is_available", FALSE>>}

MemberUpdatesIn ==
  {<<"name", "x">>, <<"is_active", FALSE>>, <<"is_active", TRUE>>,
   <<"borrowed_books", <<>>>>}

Init ==
  /\ books = <<>>
  /\ members = <<>>
  /\ transactions = <<>>
  /\ book_counter = InitialBookCounter
  /\ member_counter = InitialMemberCounter
  /\ transaction_counter = InitialTransactionCounter
  /\ now = 0
  /\ disk = NoFile
  /\ handlers = <<>>

AddBook(maxBooks, copiesIn) ==
  /\ book_counter < InitialBookCounter + maxBooks
  /\ \E c \in copiesIn : Do(add_book(Store, c))

UpdateBook(updatesIn) ==
  \E b \in BookIdsIn, u \in updatesIn :
    Do(update_book(Store, b, u[1], u[2]))

DeleteBook ==
  \E b \in BookIdsIn : Do(delete_book(Store, b))

RegisterMember(maxMembers) ==
  /\ member_counter < InitialMemberCounter + maxMembers
  /\ Do(register_member(Store))

UpdateMember(updatesIn) ==
  \E m \in MemberIdsIn, u \in updatesIn :
    Do(update_member(Store, m, u[1], u[2]))

BorrowBook(maxTxns) ==
  \E m \in MemberIdsIn, b \in BookIdsIn :
    /\ BorrowCheck(Store, m, b) = "" =>
         transaction_counter < InitialTransactionCounter + maxTxns
    /\ Do(borrow_book(Store, m, b, now))

ReturnBook ==
  \E t \in TransactionIdsIn : Do(return_book(Store, t, now))

(* A new process: LibraryManagementSystem() builds its fields and loads   *)
(* the file the last one left.                                             *)
Restart ==
  \E file \in {disk} :
    Do(Returned(load_data(EmptyStore, file), FALSE, TRUE, ""))

Tick(instants) ==
  /\ \E t \in instants : t > now /\ now' = t
  /\ UNCHANGED <<books, members, transactions, book_counter, member_counter,
                 transaction_counter, disk, handlers>>

(* The public operations of LibraryManagementSystem, one member and one   *)
(* book followed through several loans.                                    *)
Next ==
  \/ AddBook(MaxBooks, CopiesIn)
  \/ UpdateBook(BookUpdatesIn)
  \/ DeleteBook
  \/ RegisterMember(MaxMembers)
  \/ UpdateMember(MemberUpdatesIn)
  \/ BorrowBook(MaxTxns)
  \/ ReturnBook

Spec == Init /\ [][Next]_vars

(* The same operations over two books and two members. *)
NextWide ==
  \/ AddBook(WideBooks, WideCopiesIn)
  \/ UpdateBook(BookUpdatesIn)
  \/ DeleteBook
  \/ RegisterMember(WideMembers)
  \/ UpdateMember(MemberUpdatesIn)
  \/ BorrowBook(WideTxns)
  \/ ReturnBook

SpecWide == Init /\ [][NextWide]_vars

(* Lending over time: books and members are created, borrowed and         *)
(* returned while the clock advances.                                     *)
NextClock ==
  \/ AddBook(WideBooks, WideCopiesIn)
  \/ RegisterMember(WideMembers)
  \/ BorrowBook(WideTxns)
  \/ ReturnBook
  \/ Tick(Instants)

SpecClock == Init /\ [][NextClock]_vars

(* The lending operations alone, with deletion and restarts, for up to    *)
(* four loans; add_book is given any integer.                              *)
EngineCopiesIn == {-1, 0, 1, BorrowLimit + 1}

NextEngine ==
  \/ AddBook(WideBooks, EngineCopiesIn)
  \/ DeleteBook
  \/ RegisterMember(WideMembers)
  \/ BorrowBook(MaxTxns)
  \/ ReturnBook
  \/ Restart

SpecEngine == Init /\ [][NextEngine]_vars

(* The engine with accounts that are closed and opened again: update_member *)
(* called with is_active and nothing else.                                  *)
ActiveTxns == 3
ActiveUpdatesIn == {<<"is_active", FALSE>>, <<"is_active", TRUE>>}

NextActive ==
  \/ AddBook(WideBooks, EngineCopiesIn)
  \/ DeleteBook
  \/ RegisterMember(WideMembers)
  \/ UpdateMember(ActiveUpdatesIn)
  \/ BorrowBook(ActiveTxns)
  \/ ReturnBook

SpecActive == Init /\ [][NextActive]_vars

(* One call of an operation whose save_data raised: the store it leaves   *)
(* and the file the failed write leaves.                                   *)
DoFailed(r, file) ==
  /\ books' = r.store.books
  /\ members' = r.store.members
  /\ transactions' = r.store.transactions
  /\ book_counter' = r.store.book_counter
  /\ member_counter' = r.store.member_counter
  /\ transaction_counter' = r.store.transaction_counter
  /\ disk' = file
  /\ UNCHANGED <<now, handlers>>

BorrowBookSaveRaises(maxTxns) ==
  \E m \in MemberIdsIn, b \in BookIdsIn, file \in FilesAfter(disk) :
    /\ transaction_counter < InitialTransactionCounter + maxTxns
    /\ borrow_book(Store, m, b, now).saved
    /\ DoFailed(SaveRaises(borrow_book(Store, m, b, now)), file)

ReturnBookSaveRaises ==
  \E t \in TransactionIdsIn, file \in FilesAfter(disk) :
    /\ return_book(Store, t, now).saved
    /\ DoFailed(SaveRaises(return_book(Store, t, now)), file)

(* The borrowing engine on a disk that can fail: two books, two members,  *)
(* a save that raises at any borrow or return, and restarts.              *)
CrashTxns == 3

NextCrash ==
  \/ AddBook(WideBooks, WideCopiesIn)
  \/ RegisterMember(WideMembers)
  \/ BorrowBook(CrashTxns)
  \/ ReturnBook
  \/ BorrowBookSaveRaises(CrashTxns)
  \/ ReturnBookSaveRaises
  \/ Restart

SpecCrash == Init /\ [][NextCrash]_vars

(* A snapshot that is malformed part-way: the file of a whole snapshot    *)
(* without its counters, without its last counter, without its            *)
(* transactions and counters, or with member records that lack a key.     *)
DropKeys(data, keys) == [k \in DOMAIN data \ keys |-> data[k]]

CounterKeys == {"book_counter", "member_counter", "transaction_counter"}

MalformedOf(file) ==
  {[file EXCEPT !.data = DropKeys(@, CounterKeys)],
   [file EXCEPT !.data = DropKeys(@, {"transaction_counter"})],
   [file EXCEPT !.data = DropKeys(@, CounterKeys \cup {"transactions"})],
   [file EXCEPT !.data.members =
      [k \in DOMAIN @ |-> DropKeys(@[k], {"is_active"})]]}

(* The file is damaged between two runs of the program. *)
SnapshotDamaged ==
  /\ disk.exists /\ disk = Snapshot(load_data(EmptyStore, disk))
  /\ \E file \in MalformedOf(disk) : disk' = file
  /\ UNCHANGED <<books, members, transactions, book_counter, member_counter,
                 transaction_counter, now, handlers>>

(* The engine restarted on files that may be malformed. *)
LoadTxns == 2

NextLoad ==
  \/ AddBook(MaxBooks, WideCopiesIn)
  \/ RegisterMember(MaxMembers)
  \/ BorrowBook(LoadTxns)
  \/ ReturnBook
  \/ SnapshotDamaged
  \/ Restart

SpecLoad == Init /\ [][NextLoad]_vars

(* ---------------------------------------------------------------------- *)
(* The membership fee engine: LibraryManagementSystem of                  *)
(* library_system_updated.py.  Its members carry the fee attributes; it   *)
(* has no counters and no operation that creates a member, so its members *)
(* are those of the file its constructor loads.  The variables members,   *)
(* disk and now hold its state; the others stay as Init leaves them.      *)
(* ---------------------------------------------------------------------- *)

MaxFeeMembers == 2
DefaultFee == 50
YearDays == 365

(* dict.get(key, default) *)
DictGet(data, key, default) ==
  IF key \in DOMAIN data THEN data[key] ELSE default

FeeMemberToDict(member) ==
  [borrowed_books |-> member.borrowed_books,
   is_active |-> member.is_active,
   annual_membership_fee |-> member.annual_membership_fee,
   membership_expiry_date |-> IsoFormat(member.membership_expiry_date),
   last_fee_payment_date |-> IsoFormat(member.last_fee_payment_date)]

(* Member.from_dict at time t: a fee attribute the dict lacks gets its    *)
(* default.                                                                *)
FeeMemberFromDict(data, t) ==
  [borrowed_books |-> data.borrowed_books,
   is_active |-> data.is_active,
   annual_membership_fee |->
     DictGet(data, "annual_membership_fee", DefaultFee),
   membership_expiry_date |->
     FromIsoFormat(DictGet(data, "membership_expiry_date", IsoFormat(t))),
   last_fee_payment_date |->
     FromIsoFormat(DictGet(data, "last_fee_payment_date", IsoFormat(t)))]

FeeSnapshot(M) ==
  [exists |-> TRUE,
   data |-> [books |-> <<>>,
             members |-> [k \in DOMAIN M |-> FeeMemberToDict(M[k])],
             transactions |-> <<>>]]

(* load_data of the fee engine at time t, on an instance with members M. *)
fee_load_data(M, file, t) ==
  IF ~file.exists THEN M
  ELSE [k \in DOMAIN file.data.members |->
          FeeMemberFromDict(file.data.members[k], t)]

(* What a call leaves and returns. *)
FeeOutcome(M, saved, ok, value) ==
  [members |-> M, saved |-> saved, ok |-> ok, value |-> value]

(* An update_member_fee that also renews the membership. *)
update_member_fee_Renews(M, member_id, new_fee) ==
  IF member_id \in DOMAIN M
    THEN FeeOutcome([M EXCEPT ![member_id].annual_membership_fee = new_fee,
                              ![member_id].membership_expiry_date =
                                 @ + YearDays * HoursPerDay],
                    TRUE, TRUE, "True")
    ELSE FeeOutcome(M, FALSE, FALSE, "False")

update_member_fee(M, member_id, new_fee) ==
  IF member_id \in DOMAIN M
    THEN FeeOutcome([M EXCEPT ![member_id].annual_membership_fee = new_fee],
                    TRUE, TRUE, "True")
    ELSE FeeOutcome(M, FALSE, FALSE, "False")

(* A check_membership_status for which the expiry instant is too late. *)
check_membership_status_Strict(M, member_id, t) ==
  IF member_id \in DOMAIN M
    THEN IF t >= M[member_id].membership_expiry_date
           THEN FeeOutcome(M, FALSE, FALSE, "Membership expired")
           ELSE FeeOutcome(M, FALSE, TRUE, "Active")
    ELSE FeeOutcome(M, FALSE, FALSE, "Member not found")

check_membership_status(M, member_id, t) ==
  IF member_id \in DOMAIN M
    THEN IF t > M[member_id].membership_expiry_date
           THEN FeeOutcome(M, FALSE, FALSE, "Membership expired")
           ELSE FeeOutcome(M, FALSE, TRUE, "Active")
    ELSE FeeOutcome(M, FALSE, FALSE, "Member not found")

(* A pay_membership_fee that adds the year to the time still unused. *)
pay_membership_fee_Stacks(M, member_id, t1, t2) ==
  IF member_id \in DOMAIN M
    THEN FeeOutcome(
           [M EXCEPT
              ![member_id].membership_expiry_date =
                 (IF @ > t1 THEN @ ELSE t1) + YearDays * HoursPerDay,
              ![member_id].last_fee_payment_date = t2],
           TRUE, TRUE, "True")
    ELSE FeeOutcome(M, FALSE, FALSE, "False")

(* pay_membership_fee reads the clock twice: t1 for the expiry date and   *)
(* then t2 for the payment date.                                           *)
pay_membership_fee(M, member_id, t1, t2) ==
  IF member_id \in DOMAIN M
    THEN FeeOutcome(
           [M EXCEPT
              ![member_id].membership_expiry_date =
                 t1 + YearDays * HoursPerDay,
              ![member_id].last_fee_payment_date = t2],
           TRUE, TRUE, "True")
    ELSE FeeOutcome(M, FALSE, FALSE, "False")

(* get_members_with_fee_status at time t: one entry for each member. *)
get_members_with_fee_status(M, t) ==
  FeeOutcome(M, FALSE, TRUE,
    [k \in DOMAIN M |->
       [annual_fee |-> M[k].annual_membership_fee,
        expiry_date |-> IsoFormat(M[k].membership_expiry_date),
        status |-> check_membership_status(M, k, t).ok,
        status_message |-> check_membership_status(M, k, t).value]])

(* The member dicts of the files the constructor finds: one written       *)
(* before the fee attributes existed, one of a membership that expires    *)
(* in a day, one of a membership paid for 400 days more, one of a         *)
(* membership that expired yesterday.                                      *)
FeeMemberDictsIn ==
  { [borrowed_books |-> <<>>, is_active |-> TRUE] }
  \cup
  { FeeMemberToDict(
      [borrowed_books |-> <<>>, is_active |-> TRUE,
       annual_membership_fee |-> DefaultFee,
       membership_expiry_date |-> e * HoursPerDay,
       last_fee_payment_date |-> (e - YearDays) * HoursPerDay])
    : e \in {1, 400, -1} }

FeeFilesIn ==
  { NoFile }
  \cup
  { [exists |-> TRUE,
     data |-> [books |-> <<>>, members |-> f, transactions |-> <<>>]]
    : f \in UNION
        { [InitialMemberCounter .. InitialMemberCounter + n - 1
             -> FeeMemberDictsIn] : n \in 1 .. MaxFeeMembers } }

(* The clock readings of SpecFee, in hours: the start, one day later and  *)
(* the hour after it, one year after the start and the hour after it.     *)
FeeInstants ==
  {0, HoursPerDay, HoursPerDay + 1,
   YearDays * HoursPerDay, YearDays * HoursPerDay + 1}

FeesIn == {DefaultFee, 75}

(* The member ids the callers give: those of the members and one more. *)
FeeMemberIdsIn ==
  InitialMemberCounter .. InitialMemberCounter + Cardinality(DOMAIN members)

InitFee ==
  /\ \E file \in FeeFilesIn :
       /\ disk = file
       /\ members = fee_load_data(<<>>, file, 0)
  /\ books = <<>>
  /\ transactions = <<>>
  /\ book_counter = InitialBookCounter
  /\ member_counter = InitialMemberCounter
  /\ transaction_counter = InitialTransactionCounter
  /\ now = 0
  /\ handlers = <<>>

(* One call of a fee operation that ends at time t. *)
DoFee(r, t) ==
  /\ members' = r.members
  /\ disk' = IF r.saved THEN FeeSnapshot(r.members) ELSE disk
  /\ now' = t
  /\ UNCHANGED <<books, transactions, book_counter, member_counter,
                 transaction_counter, handlers>>

UpdateMemberFee ==
  \E m \in FeeMemberIdsIn, f \in FeesIn :
    DoFee(update_member_fee(members, m, f), now)

CheckMembershipStatus ==
  \E m \in FeeMemberIdsIn :
    DoFee(check_membership_status(members, m, now), now)

PayMembershipFee ==
  \E m \in FeeMemberIdsIn, t2 \in {i \in FeeInstants : i >= now} :
    DoFee(pay_membership_fee(members, m, now, t2), t2)

GetMembersWithFeeStatus ==
  \E t \in {now} : DoFee(get_members_with_fee_status(members, t), t)

NextFee ==
  \/ UpdateMemberFee
  \/ CheckMembershipStatus
  \/ PayMembershipFee
  \/ GetMembersWithFeeStatus
  \/ Tick(FeeInstants)

SpecFee == InitFee /\ [][NextFee]_vars

(* ---------------------------------------------------------------------- *)
(* The web application: app.py.  Its Book and Transaction classes are     *)
(* those of library_system.py line for line; its members carry the fee    *)
(* attributes; its store has no counters, ids being the first eight       *)
(* characters of a uuid4.  One module-level store serves every request,   *)
(* and no handler takes a lock, so the statements of two requests that    *)
(* are served at once interleave.  Each statement of the borrow handler   *)
(* that reads or writes the store is one step; handlers holds, for each   *)
(* request being served, the statement it is at and its local variables.  *)
(* ---------------------------------------------------------------------- *)

AppHandlers == 2
AppBooks == 1
AppMembers == 2
AppTxns == 5

AppMember(t) ==
  [borrowed_books |-> <<>>, is_active |-> TRUE,
   annual_membership_fee |-> DefaultFee,
   membership_expiry_date |-> t + YearDays * HoursPerDay,
   last_fee_payment_date |-> t]

AppMemberToDict(member) ==
  [borrowed_books |-> member.borrowed_books,
   is_active |-> member.is_active,
   annual_membership_fee |-> member.annual_membership_fee,
   membership_expiry_date |-> IsoFormat(member.membership_expiry_date),
   last_fee_payment_date |-> IsoFormat(member.last_fee_payment_date)]

(* Member.from_dict of app.py at time t: the constructor runs first and   *)
(* a fee attribute the dict lacks keeps the value of a new member.        *)
AppMemberFromDict(data, t) ==
  [AppMember(t) EXCEPT
     !.borrowed_books = data.borrowed_books,
     !.is_active = data.is_active,
     !.annual_membership_fee =
        DictGet(data, "annual_membership_fee", DefaultFee),
     !.membership_expiry_date =
        IF "membership_expiry_date" \in DOMAIN data
          THEN FromIsoFormat(data.membership_expiry_date)
          ELSE t + YearDays * HoursPerDay,
     !.last_fee_payment_date =
        IF "last_fee_payment_date" \in DOMAIN data
          THEN FromIsoFormat(data.last_fee_payment_date)
          ELSE t]

(* The store of app.py, the file and the requests being served, as one    *)
(* value.                                                                  *)
App ==
  [books |-> books, members |-> members, transactions |-> transactions,
   disk |-> disk, handlers |-> handlers]

AppSnapshot(A) ==
  [exists |-> TRUE,
   data |->
     [books |-> [k \in DOMAIN A.books |-> BookToDict(A.books[k])],
      members |-> [k \in DOMAIN A.members |-> AppMemberToDict(A.members[k])],
      transactions |->
        [k \in DOMAIN A.transactions |->
           TransactionToDict(A.transactions[k])]]]

app_save_data(A) ==
  [A EXCEPT !.disk = AppSnapshot(A)]

(* load_data of app.py at time t. *)
app_load_data(A, file, t) ==
  IF ~file.exists \/ file = Truncated THEN A
  ELSE [A EXCEPT
          !.books = [k \in DOMAIN file.data.books |->
                       BookFromDict(file.data.books[k])],
          !.members = [k \in DOMAIN file.data.members |->
                         AppMemberFromDict(file.data.members[k], t)],
          !.transactions = [k \in DOMAIN file.data.transactions |->
                              TransactionFromDict(file.data.transactions[k])]]

(* str(uuid.uuid4())[:8]: a value that names nothing yet.  The objects of *)
(* a kind are numbered as they are made, and nothing in app.py or         *)
(* library_cli.py removes one.                                            *)
Uuid(used) == Cardinality(used) + 1

(* A request that is not being served, and what a handler step leaves:    *)
(* the store and, once the handler is through, its response.              *)
Idle ==
  [pc |-> "idle", member_id |-> None, book_id |-> None,
   transaction_id |-> None]

Goto(A, h, pc) ==
  [app |-> [A EXCEPT !.handlers[h].pc = pc], response |-> ""]

Respond(A, h, response) ==
  [app |-> [A EXCEPT !.handlers[h] = Idle], response |-> response]

(* The add_book and add_member handlers. *)
app_add_book(A, total_copies) ==
  app_save_data(
    [A EXCEPT !.books = DictSet(@, Uuid(DOMAIN @), Book(total_copies))])

app_add_member(A, t) ==
  app_save_data(
    [A EXCEPT !.members = DictSet(@, Uuid(DOMAIN @), AppMember(t))])

(* The borrow handler takes a request. *)
BorrowBegin(A, h, member_id, book_id) ==
  [A EXCEPT !.handlers[h] =
     [pc |-> "ids", member_id |-> member_id, book_id |-> book_id,
      transaction_id |-> None]]

(* A handler that also turns away a member whose membership has expired. *)
BorrowActive_ChecksExpiry(A, h, t) ==
  LET member == A.members[A.handlers[h].member_id]
  IN IF ~member.is_active \/ t > member.membership_expiry_date
       THEN Respond(A, h, "Member account is inactive")
       ELSE Goto(A, h, "copies")

(* The check of the member's account by handler h, at time t. *)
BorrowActive(A, h, t) ==
  LET member == A.members[A.handlers[h].member_id]
  IN IF ~member.is_active
       THEN Respond(A, h, "Member account is inactive")
       ELSE Goto(A, h, "copies")

(* A handler that looks at the copies again before it makes the           *)
(* transaction.                                                            *)
BorrowCreate_RechecksCopies(A, h, t) ==
  LET me == A.handlers[h]
      id == Uuid(DOMAIN A.transactions)
  IN IF A.books[me.book_id].available_copies <= 0
       THEN Respond(A, h, "Book not available")
       ELSE Goto([A EXCEPT
                    !.transactions =
                       DictSet(@, id,
                               Transaction(me.member_id, me.book_id, t,
                                           t + LoanDays * HoursPerDay)),
                    !.handlers[h].transaction_id = id],
                 h, "take")

(* A handler that counts the member's loans again before it makes the     *)
(* transaction.                                                            *)
BorrowCreate_RechecksLimit(A, h, t) ==
  LET me == A.handlers[h]
      id == Uuid(DOMAIN A.transactions)
  IN IF Len(A.members[me.member_id].borrowed_books) >= BorrowLimit
       THEN Respond(A, h, "Member has reached maximum borrowing limit")
       ELSE Goto([A EXCEPT
                    !.transactions =
                       DictSet(@, id,
                               Transaction(me.member_id, me.book_id, t,
                                           t + LoanDays * HoursPerDay)),
                    !.handlers[h].transaction_id = id],
                 h, "take")

(* The handler h past its checks, at time t: the transaction id, the two  *)
(* dates and the new transaction, stored under its id.                    *)
BorrowCreate(A, h, t) ==
  LET me == A.handlers[h]
      id == Uuid(DOMAIN A.transactions)
  IN Goto([A EXCEPT
             !.transactions =
                DictSet(@, id,
                        Transaction(me.member_id, me.book_id, t,
                                    t + LoanDays * HoursPerDay)),
             !.handlers[h].transaction_id = id],
          h, "take")

(* The next statement of the borrow handler h, at time t. *)
BorrowStep(A, h, t) ==
  LET me == A.handlers[h]
      m == me.member_id
      b == me.book_id
      tid == me.transaction_id
  IN CASE me.pc = "ids" ->
            IF m \notin DOMAIN A.members \/ b \notin DOMAIN A.books
              THEN Respond(A, h, "Invalid member or book ID")
              ELSE Goto(A, h, "active")
       [] me.pc = "active" -> BorrowActive(A, h, t)
       [] me.pc = "copies" ->
            IF A.books[b].available_copies <= 0
              THEN Respond(A, h, "Book not available")
              ELSE Goto(A, h, "limit")
       [] me.pc = "limit" ->
            IF Len(A.members[m].borrowed_books) >= BorrowLimit
              THEN Respond(A, h, "Member has reached maximum borrowing limit")
              ELSE Goto(A, h, "create")
       [] me.pc = "create" -> BorrowCreate(A, h, t)
       [] me.pc = "take" ->
            Goto([A EXCEPT !.books[b].available_copies = @ - 1], h, "flag")
       [] me.pc = "flag" ->
            Goto(IF A.books[b].available_copies = 0
                   THEN [A EXCEPT !.books[b].is_available = FALSE]
                   ELSE A,
                 h, "append")
       [] me.pc = "append" ->
            Goto([A EXCEPT !.members[m].borrowed_books = Append(@, tid)],
                 h, "save")
       [] me.pc = "save" ->
            Respond(app_save_data(A), h, "redirect")

(* The rest of a request served with no other request in between. *)
RECURSIVE BorrowFinish(_, _, _)
BorrowFinish(A, h, t) ==
  LET r == BorrowStep(A, h, t)
  IN IF r.response # "" THEN r ELSE BorrowFinish(r.app, h, t)

(* The return handler takes a request. *)
ReturnBegin(A, h, transaction_id) ==
  [A EXCEPT !.handlers[h] =
     [pc |-> "r_ids", member_id |-> None, book_id |-> None,
      transaction_id |-> transaction_id]]

(* A handler that leaves the fine of the constructor, as option 4 of the  *)
(* console menu does.                                                      *)
ReturnFine_NoFine(A, h, t) ==
  Goto(A, h, "r_give")

(* The fine statement of the return handler h: it reads the return date   *)
(* and the due date the transaction has by now.                           *)
ReturnFine(A, h, t) ==
  LET id == A.handlers[h].transaction_id
      transaction == A.transactions[id]
  IN Goto(IF transaction.return_date > transaction.due_date
            THEN [A EXCEPT !.transactions[id].fine =
                    ((transaction.return_date - transaction.due_date)
                       \div HoursPerDay) * FinePerDay]
            ELSE A,
          h, "r_give")

(* The next statement of the return handler h, at time t.  An exception   *)
(* no handler catches ends the request with the 500 page of Flask and     *)
(* leaves the store as the statements before it made it.                  *)
ReturnStep(A, h, t) ==
  LET me == A.handlers[h]
      id == me.transaction_id
  IN CASE me.pc = "r_ids" ->
            IF id \notin DOMAIN A.transactions
              THEN Respond(A, h, "Invalid transaction ID")
              ELSE Goto(A, h, "r_open")
       [] me.pc = "r_open" ->
            IF A.transactions[id].return_date # None
              THEN Respond(A, h, "Book already returned")
              ELSE Goto(A, h, "r_stamp")
       [] me.pc = "r_stamp" ->
            Goto([A EXCEPT !.transactions[id].return_date = t], h, "r_fine")
       [] me.pc = "r_fine" -> ReturnFine(A, h, t)
       [] me.pc = "r_give" ->
            IF A.transactions[id].book_id \notin DOMAIN A.books
              THEN Respond(A, h, "500 KeyError")
              ELSE Goto([A EXCEPT
                           !.books[A.transactions[id].book_id]
                              .available_copies = @ + 1],
                        h, "r_flag")
       [] me.pc = "r_flag" ->
            Goto([A EXCEPT
                    !.books[A.transactions[id].book_id].is_available = TRUE],
                 h, "r_remove")
       [] me.pc = "r_remove" ->
            LET m == A.transactions[id].member_id
            IN IF m \notin DOMAIN A.members
                 THEN Respond(A, h, "500 KeyError")
               ELSE IF ~ListHas(A.members[m].borrowed_books, id)
                 THEN Respond(A, h, "500 ValueError")
               ELSE Goto([A EXCEPT !.members[m].borrowed_books =
                                      ListRemove(@, id)],
                         h, "r_save")
       [] me.pc = "r_save" ->
            Respond(app_save_data(A), h, "redirect")

RECURSIVE ReturnFinish(_, _, _)
ReturnFinish(A, h, t) ==
  LET r == ReturnStep(A, h, t)
  IN IF r.response # "" THEN r ELSE ReturnFinish(r.app, h, t)

BorrowPcs ==
  {"ids", "active", "copies", "limit", "create", "take", "flag", "append",
   "save"}

AppCopiesIn == {1, BorrowLimit + 1}
AppBookIdsIn == 1 .. Cardinality(DOMAIN books) + 1
AppMemberIdsIn == 1 .. Cardinality(DOMAIN members) + 1
AppTransactionIdsIn == 1 .. Cardinality(DOMAIN transactions) + 1
InFlight == {h \in DOMAIN handlers : handlers[h].pc # "idle"}

(* The process starts with no file. *)
InitApp ==
  /\ books = <<>>
  /\ members = <<>>
  /\ transactions = <<>>
  /\ book_counter = InitialBookCounter
  /\ member_counter = InitialMemberCounter
  /\ transaction_counter = InitialTransactionCounter
  /\ now = 0
  /\ disk = NoFile
  /\ handlers = [h \in 1 .. AppHandlers |-> Idle]

DoApp(A) ==
  /\ books' = A.books
  /\ members' = A.members
  /\ transactions' = A.transactions
  /\ disk' = A.disk
  /\ handlers' = A.handlers
  /\ UNCHANGED <<book_counter, member_counter, transaction_counter, now>>

AppAddBook(maxBooks, copiesIn) ==
  /\ Cardinality(DOMAIN books) < maxBooks
  /\ \E c \in copiesIn : DoApp(app_add_book(App, c))

AppAddMember(maxMembers) ==
  /\ Cardinality(DOMAIN members) < maxMembers
  /\ \E t \in {now} : DoApp(app_add_member(App, t))

(* A borrow request arrives; the requests in flight are those that may    *)
(* still make a transaction.                                               *)
AppBorrowBegin(maxTxns) ==
  \E h \in DOMAIN handlers, m \in AppMemberIdsIn, b \in AppBookIdsIn :
    /\ handlers[h].pc = "idle"
    /\ Cardinality(DOMAIN transactions) + Cardinality(InFlight) < maxTxns
    /\ DoApp(BorrowBegin(App, h, m, b))

AppBorrowStep ==
  \E h \in InFlight :
    /\ handlers[h].pc \in BorrowPcs
    /\ DoApp(BorrowStep(App, h, now).app)

(* Two requests at a time against one book and two members. *)
NextApp ==
  \/ AppAddBook(AppBooks, AppCopiesIn)
  \/ AppAddMember(AppMembers)
  \/ AppBorrowBegin(AppTxns)
  \/ AppBorrowStep

SpecApp == InitApp /\ [][NextApp]_vars

AppReturnBegin ==
  \E h \in DOMAIN handlers, t \in AppTransactionIdsIn :
    /\ handlers[h].pc = "idle"
    /\ DoApp(ReturnBegin(App, h, t))

AppReturnStep ==
  \E h \in InFlight :
    /\ handlers[h].pc \notin BorrowPcs
    /\ DoApp(ReturnStep(App, h, now).app)

(* Borrow and return requests, two at a time, against one book and two    *)
(* members.                                                                *)
AppReturnTxns == 2

NextAppReturn ==
  \/ AppAddBook(AppBooks, AppCopiesIn)
  \/ AppAddMember(AppMembers)
  \/ AppBorrowBegin(AppReturnTxns)
  \/ AppBorrowStep
  \/ AppReturnBegin
  \/ AppReturnStep

SpecAppReturn == InitApp /\ [][NextAppReturn]_vars

(* A borrow request served while no other request is. *)
AppBorrowAlone(maxTxns) ==
  \E h \in DOMAIN handlers, m \in AppMemberIdsIn, b \in AppBookIdsIn :
    /\ InFlight = {}
    /\ Cardinality(DOMAIN transactions) < maxTxns
    /\ DoApp(BorrowFinish(BorrowBegin(App, h, m, b), h, now).app)

(* Return requests two at a time, each borrow request on its own. *)
NextAppReturnRace ==
  \/ AppAddBook(AppBooks, AppCopiesIn)
  \/ AppAddMember(AppMembers)
  \/ AppBorrowAlone(AppReturnTxns)
  \/ AppReturnBegin
  \/ AppReturnStep

SpecAppReturnRace == InitApp /\ [][NextAppReturnRace]_vars

(* ---------------------------------------------------------------------- *)
(* The console menu: main() of library_cli.py, on the store class of      *)
(* app.py.  One choice of the menu is served at a time; what an option    *)
(* leaves is the store and the line it prints.                            *)
(* ---------------------------------------------------------------------- *)

Printed(A, line) == [app |-> A, printed |-> line]

(* Option 1 and option 2. *)
cli_add_book(A, total_copies) ==
  Printed(app_save_data(
            [A EXCEPT !.books = DictSet(@, Uuid(DOMAIN @),
                                        Book(total_copies))]),
          "Book added successfully.")

cli_add_member(A, t) ==
  Printed(app_save_data(
            [A EXCEPT !.members = DictSet(@, Uuid(DOMAIN @), AppMember(t))]),
          "Member added successfully.")

(* Option 3, at time t. *)
cli_borrow(A, member_id, book_id, t) ==
  IF member_id \in DOMAIN A.members /\ book_id \in DOMAIN A.books
    THEN IF A.members[member_id].is_active
              /\ A.books[book_id].available_copies > 0
           THEN LET id == Uuid(DOMAIN A.transactions)
                    A1 == [A EXCEPT
                             !.transactions =
                                DictSet(@, id,
                                        Transaction(member_id, book_id, t,
                                                    t + LoanDays * HoursPerDay)),
                             !.books[book_id].available_copies = @ - 1]
                    A2 == IF A1.books[book_id].available_copies = 0
                            THEN [A1 EXCEPT !.books[book_id].is_available = FALSE]
                            ELSE A1
                IN Printed(app_save_data(
                             [A2 EXCEPT !.members[member_id].borrowed_books =
                                           Append(@, id)]),
                           "Book borrowed successfully.")
           ELSE Printed(A, "Cannot borrow book. Check member status or book availability.")
    ELSE Printed(A, "Invalid member or book ID.")

(* Option 4, at time t: the return date and nothing else is written on    *)
(* the transaction.                                                        *)
cli_return(A, transaction_id, t) ==
  IF transaction_id \in DOMAIN A.transactions
    THEN IF A.transactions[transaction_id].return_date = None
           THEN LET transaction == A.transactions[transaction_id]
                IN Printed(app_save_data(
                             [A EXCEPT
                                !.transactions[transaction_id].return_date = t,
                                !.books[transaction.book_id].available_copies =
                                   @ + 1,
                                !.books[transaction.book_id].is_available = TRUE,
                                !.members[transaction.member_id].borrowed_books =
                                   ListRemove(@, transaction_id)]),
                           "Book returned successfully.")
           ELSE Printed(A, "Book already returned.")
    ELSE Printed(A, "Invalid transaction ID.")

CliAddBook(maxBooks, copiesIn) ==
  /\ Cardinality(DOMAIN books) < maxBooks
  /\ \E c \in copiesIn : DoApp(cli_add_book(App, c).app)

CliAddMember(maxMembers) ==
  /\ Cardinality(DOMAIN members) < maxMembers
  /\ \E t \in {now} : DoApp(cli_add_member(App, t).app)

CliBorrow(maxTxns) ==
  \E m \in AppMemberIdsIn, b \in AppBookIdsIn :
    /\ Cardinality(DOMAIN transactions) < maxTxns
    /\ DoApp(cli_borrow(App, m, b, now).app)

CliReturn ==
  \E t \in AppTransactionIdsIn : DoApp(cli_return(App, t, now).app)

(* The menu on one book and two members; no web request is served. *)
NextCli ==
  \/ CliAddBook(AppBooks, AppCopiesIn)
  \/ CliAddMember(AppMembers)
  \/ CliBorrow(AppTxns)
  \/ CliReturn

SpecCli == Init /\ [][NextCli]_vars

(* The menu with a clock: loans that run past their due date. *)
CliTxns == 2

NextCliClock ==
  \/ CliAddBook(AppBooks, AppCopiesIn)
  \/ CliAddMember(AppMembers)
  \/ CliBorrow(CliTxns)
  \/ CliReturn
  \/ Tick(Instants)

SpecCliClock == Init /\ [][NextCliClock]_vars

(* ---------------------------------------------------------------------- *)
(* Properties.                                                            *)
(* ---------------------------------------------------------------------- *)

(* A transaction is open while it has no return date. *)
OpenOfBook(S, book_id) ==
  {t \in DOMAIN S.transactions :
     S.transactions[t].book_id = book_id
       /\ S.transactions[t].return_date = None}

OpenOfMember(S, member_id) ==
  {t \in DOMAIN S.transactions :
     S.transactions[t].member_id = member_id
       /\ S.transactions[t].return_date = None}

(* C1: after every sequence of public operations, every book's available  *)
(* copies plus the number of its open transactions equal its total copies. *)
C1_CopiesBalance ==
  \A b \in DOMAIN books :
    books[b].available_copies + Cardinality(OpenOfBook(Store, b))
      = books[b].total_copies

(* C2: after every sequence of public operations, update_member included,  *)
(* no member has more than 3 open transactions.                            *)
C2_AtMostThreeOpen ==
  \A m \in DOMAIN members : Cardinality(OpenOfMember(Store, m)) <= 3

(* The failure kind a borrow_book result tells its caller. *)
BorrowKind(r) ==
  IF r.raised # "" THEN "Raised"
  ELSE IF r.ok THEN "Ok"
  ELSE IF r.value = "Invalid member or book ID" THEN "NotFound"
  ELSE IF r.value = "Member account is inactive" THEN "MemberInactive"
  ELSE IF r.value = "Book not available" THEN "BookUnavailable"
  ELSE IF r.value = "Member has reached maximum borrowing limit (3 books)"
    THEN "BorrowLimitExceeded"
  ELSE "Other"

(* The first violated precondition of borrow_book, in the stated order. *)
FirstViolated(S, member_id, book_id) ==
  IF member_id \notin DOMAIN S.members THEN "NotFound"
  ELSE IF book_id \notin DOMAIN S.books THEN "NotFound"
  ELSE IF ~S.members[member_id].is_active THEN "MemberInactive"
  ELSE IF ~(S.books[book_id].available_copies > 0) THEN "BookUnavailable"
  ELSE IF ~(Cardinality(OpenOfMember(S, member_id)) < 3)
    THEN "BorrowLimitExceeded"
  ELSE "Ok"

(* C3: borrow_book checks that the member exists, the book exists, the     *)
(* member is active, the book has a copy available and the member has      *)
(* fewer than 3 open transactions, in this order, and reports the first    *)
(* violated precondition as its own failure kind.                          *)
C3_FirstViolatedReported ==
  \A m \in MemberIdsIn, b \in BookIdsIn :
    BorrowKind(borrow_book(Store, m, b, now)) = FirstViolated(Store, m, b)

(* The reasons borrow_book gives for refusing. *)
BorrowRefusals ==
  {"Invalid member or book ID", "Member account is inactive",
   "Book not available",
   "Member has reached maximum borrowing limit (3 books)"}

(* C4: a borrow_book call that fails returns (False, reason) without       *)
(* raising and leaves the whole store as it was: no transaction created,   *)
(* no book's copies or flag changed, no member's borrowed_books changed,   *)
(* the transaction counter not advanced, nothing written.                  *)
C4_FailedBorrowChangesNothing ==
  \A m \in MemberIdsIn, b \in BookIdsIn :
    LET r == borrow_book(Store, m, b, now)
    IN ~r.ok =>
         /\ r.raised = ""
         /\ r.value \in BorrowRefusals
         /\ DOMAIN r.store.transactions = DOMAIN transactions
         /\ r.store.transactions = transactions
         /\ r.store.books = books
         /\ r.store.members = members
         /\ r.store.transaction_counter = transaction_counter
         /\ r.store.book_counter = book_counter
         /\ r.store.member_counter = member_counter
         /\ ~r.saved

(* A store in which each kind of refusal but the first can be met by the   *)
(* one member and the one book: the member holds three loans of a book     *)
(* that still has a copy, so a further borrow is refused for the limit,    *)
(* and the unknown ids are refused as invalid.                             *)
C4_Witness ==
  \E m \in DOMAIN members, b \in DOMAIN books :
    /\ Len(members[m].borrowed_books) = 3
    /\ members[m].is_active
    /\ books[b].available_copies > 0
    /\ ~borrow_book(Store, m, b, now).ok
    /\ borrow_book(Store, m, b, now).value
         = "Member has reached maximum borrowing limit (3 books)"
    /\ ~borrow_book(Store, member_counter, b, now).ok
    /\ transaction_counter = InitialTransactionCounter + 3

(* C5: a successful borrow_book(m, b) creates exactly one new open         *)
(* transaction for (m, b), due 14 days after its borrow date, takes one    *)
(* copy of b, makes b.is_available false exactly when no copy is left,     *)
(* appends the transaction id to m.borrowed_books and changes nothing      *)
(* else; the call returns with all of it applied and written.              *)
C5_SuccessfulBorrowEffect ==
  \A m \in MemberIdsIn, b \in BookIdsIn :
    LET r == borrow_book(Store, m, b, now)
        t == transaction_counter
        S == r.store
    IN r.ok =>
         /\ r.raised = "" /\ r.saved /\ r.value = t
         /\ t \notin DOMAIN transactions
         /\ DOMAIN S.transactions = DOMAIN transactions \cup {t}
         /\ \A x \in DOMAIN transactions :
               S.transactions[x] = transactions[x]
         /\ S.transactions[t] =
               [member_id |-> m, book_id |-> b, borrow_date |-> now,
                due_date |-> now + 14 * 24, return_date |-> None, fine |-> 0]
         /\ DOMAIN S.books = DOMAIN books
         /\ \A x \in DOMAIN books \ {b} : S.books[x] = books[x]
         /\ S.books[b].total_copies = books[b].total_copies
         /\ S.books[b].available_copies = books[b].available_copies - 1
         /\ (S.books[b].available_copies = 0 => ~S.books[b].is_available)
         /\ (S.books[b].available_copies # 0 =>
               S.books[b].is_available = books[b].is_available)
         /\ DOMAIN S.members = DOMAIN members
         /\ \A x \in DOMAIN members \ {m} : S.members[x] = members[x]
         /\ S.members[m].is_active = members[m].is_active
         /\ S.members[m].borrowed_books
               = members[m].borrowed_books \o <<t>>
         /\ S.transaction_counter = transaction_counter + 1
         /\ S.book_counter = book_counter
         /\ S.member_counter = member_counter

(* The store right after a borrow that took the last copy of a book,       *)
(* while another book, another member and an earlier loan exist.           *)
C5_Witness ==
  \E m \in DOMAIN members, b \in DOMAIN books :
    LET t == transaction_counter - 1
    IN /\ t \in DOMAIN transactions
       /\ transactions[t].member_id = m /\ transactions[t].book_id = b
       /\ transactions[t].return_date = None
       /\ transactions[t].due_date = transactions[t].borrow_date + 336
       /\ members[m].borrowed_books # <<>>
       /\ members[m].borrowed_books[Len(members[m].borrowed_books)] = t
       /\ books[b].available_copies = 0 /\ ~books[b].is_available
       /\ books[b].total_copies = 1
       /\ Cardinality(DOMAIN books) = 2
       /\ Cardinality(DOMAIN members) = 2
       /\ \E u \in DOMAIN transactions :
            /\ transactions[u].member_id # m
            /\ transactions[u].book_id # b
            /\ transactions[u].return_date = None

(* The call of return_book on transaction t at the current time. *)
ReturnNow(t) == return_book(Store, t, now)

(* C6: return_book fails with "Invalid transaction ID" for an unknown id   *)
(* and with "Book already returned" for a returned transaction, and        *)
(* leaves the store unchanged; a second return of the same transaction,    *)
(* whenever made, adds no copy and keeps the return date and the fine.     *)
C6_FailedReturnChangesNothing ==
  \A t \in TransactionIdsIn :
    /\ t \notin DOMAIN transactions =>
          /\ ~ReturnNow(t).ok /\ ReturnNow(t).raised = ""
          /\ ReturnNow(t).value = "Invalid transaction ID"
          /\ ReturnNow(t).store = Store /\ ~ReturnNow(t).saved
    /\ (t \in DOMAIN transactions /\ transactions[t].return_date # None) =>
          /\ ~ReturnNow(t).ok /\ ReturnNow(t).raised = ""
          /\ ReturnNow(t).value = "Book already returned"
          /\ ReturnNow(t).store = Store /\ ~ReturnNow(t).saved
    /\ (t \in DOMAIN transactions /\ transactions[t].return_date = None
           /\ ReturnNow(t).ok) =>
          \A later \in {i \in Instants : i >= now} :
            LET S1 == ReturnNow(t).store
                again == return_book(S1, t, later)
                b == transactions[t].book_id
            IN /\ ~again.ok /\ again.raised = ""
               /\ again.value = "Book already returned"
               /\ again.store.books[b].available_copies
                    = books[b].available_copies + 1
               /\ again.store.transactions[t].return_date = now
               /\ again.store.transactions[t].fine
                    = S1.transactions[t].fine
               /\ again.store = S1

(* A transaction returned late, some time ago: returning it again now is   *)
(* refused, and its book has all its copies back.                          *)
C6_Witness ==
  \E t \in DOMAIN transactions :
    /\ transactions[t].return_date # None
    /\ transactions[t].return_date < now
    /\ transactions[t].fine > 0
    /\ ReturnNow(t).value = "Book already returned"
    /\ books[transactions[t].book_id].available_copies
         = books[transactions[t].book_id].total_copies
    /\ ReturnNow(transaction_counter).value = "Invalid transaction ID"

(* C7: a successful return_book(t) stamps t.return_date, gives the book    *)
(* one copy back, sets its is_available, removes t from the member's       *)
(* borrowed_books, returns the fine stored on t (0 when on time) and       *)
(* changes no other transaction, book or member.                           *)
C7_SuccessfulReturnEffect ==
  \A t \in TransactionIdsIn :
    LET r == ReturnNow(t)
        S == r.store
    IN r.ok =>
         LET old == transactions[t]
             b == old.book_id
             m == old.member_id
         IN /\ r.raised = "" /\ r.saved
            /\ old.return_date = None
            /\ DOMAIN S.transactions = DOMAIN transactions
            /\ \A x \in DOMAIN transactions \ {t} :
                  S.transactions[x] = transactions[x]
            /\ S.transactions[t] =
                  [old EXCEPT !.return_date = now, !.fine = r.value]
            /\ S.transactions[t].fine = r.value
            /\ (now <= old.due_date => r.value = 0)
            /\ DOMAIN S.books = DOMAIN books
            /\ \A x \in DOMAIN books \ {b} : S.books[x] = books[x]
            /\ S.books[b].available_copies = books[b].available_copies + 1
            /\ S.books[b].is_available
            /\ S.books[b].total_copies = books[b].total_copies
            /\ DOMAIN S.members = DOMAIN members
            /\ \A x \in DOMAIN members \ {m} : S.members[x] = members[x]
            /\ S.members[m].is_active = members[m].is_active
            /\ S.members[m].borrowed_books
                  = SelectSeq(members[m].borrowed_books, LAMBDA x : x # t)
            /\ ~ListHas(S.members[m].borrowed_books, t)
            /\ S.book_counter = book_counter
            /\ S.member_counter = member_counter
            /\ S.transaction_counter = transaction_counter

(* The store right after a return three days late of the last copy out,    *)
(* by a member who keeps another loan.                                     *)
C7_Witness ==
  \E t \in DOMAIN transactions :
    LET m == transactions[t].member_id
        b == transactions[t].book_id
    IN /\ transactions[t].return_date = now
       /\ transactions[t].fine = 3
       /\ books[b].available_copies = 1 /\ books[b].is_available
       /\ books[b].total_copies = 1
       /\ ~ListHas(members[m].borrowed_books, t)
       /\ Len(members[m].borrowed_books) = 1
       /\ \E u \in DOMAIN transactions :
            /\ u # t
            /\ transactions[u].member_id = m
            /\ transactions[u].return_date = None
            /\ members[m].borrowed_books = <<u>>

(* d is the number of whole days in a lateness of h hours. *)
WholeDays(h, d) == d >= 0 /\ d * 24 <= h /\ h < (d + 1) * 24

(* C8: the fine of a return is the number of whole days from the due date  *)
(* to the return date, truncated, times 1.00, and 0 when the return is not *)
(* after the due date: 3.00 at exactly due + 3 days, 2.00 at due + 2 days  *)
(* 23 hours, 0.00 when less than one day late.                             *)
C8_FineIsWholeDaysLate ==
  /\ \A t \in DOMAIN transactions :
       LET late == transactions[t].return_date - transactions[t].due_date
           fine == transactions[t].fine
       IN IF transactions[t].return_date = None THEN fine = 0
          ELSE /\ late <= 0 => fine = 0
               /\ late > 0 => WholeDays(late, fine)
               /\ late = 3 * 24 => fine = 3
               /\ late = 2 * 24 + 23 => fine = 2
               /\ (0 < late /\ late < 24) => fine = 0
  /\ \A t \in DOMAIN transactions :
       ReturnNow(t).ok =>
         LET late == now - transactions[t].due_date
         IN /\ late <= 0 => ReturnNow(t).value = 0
            /\ late > 0 => WholeDays(late, ReturnNow(t).value)

(* Two loans of the same day, one returned 2 days 23 hours late and        *)
(* charged 2, the other returned exactly 3 days late and charged 3.        *)
C8_Witness ==
  \E t, u \in DOMAIN transactions :
    /\ transactions[t].return_date = transactions[t].due_date + 2 * 24 + 23
    /\ transactions[t].fine = 2
    /\ transactions[u].return_date = transactions[u].due_date + 3 * 24
    /\ transactions[u].fine = 3

(* C9: a successful borrow_book(m, b) followed at once by the return of    *)
(* the transaction it created brings b.available_copies and                *)
(* m.borrowed_books back to what they were before the borrow.              *)
C9_BorrowThenReturnRestores ==
  \A m \in MemberIdsIn, b \in BookIdsIn :
    LET lent == borrow_book(Store, m, b, now)
    IN lent.ok =>
         \A later \in {now} \cup {i \in Instants : i >= now} :
           LET back == return_book(lent.store, lent.value, later)
           IN /\ back.ok
              /\ back.store.books[b].available_copies
                   = books[b].available_copies
              /\ back.store.members[m].borrowed_books
                   = members[m].borrowed_books
              /\ back.store.books[b].total_copies = books[b].total_copies

(* The store after a member who holds a loan borrowed a second copy of     *)
(* the book and returned it at once: the newest transaction is closed,     *)
(* the list holds the first loan only, one copy is out.                    *)
C9_Witness ==
  \E m \in DOMAIN members, b \in DOMAIN books :
    LET t == transaction_counter - 1
        u == transaction_counter - 2
    IN /\ u \in DOMAIN transactions /\ t \in DOMAIN transactions
       /\ transactions[t].member_id = m /\ transactions[t].book_id = b
       /\ transactions[u].member_id = m /\ transactions[u].book_id = b
       /\ transactions[t].return_date # None
       /\ transactions[u].return_date = None
       /\ members[m].borrowed_books = <<u>>
       /\ books[b].total_copies = 2
       /\ books[b].available_copies = 1 /\ books[b].is_available

(* C10: a book has one copy; member A borrows it, after which it has 0     *)
(* copies available and is_available false; member B's borrow then fails   *)
(* with "Book not available"; A returns 20 days after borrowing and the    *)
(* fine is 6.00, with 1 copy available again; B's borrow then succeeds.    *)
C10_SingleCopyScenario ==
  \A b \in DOMAIN books, A \in DOMAIN members, B \in DOMAIN members :
    ( /\ A # B
      /\ books[b].total_copies = 1 /\ books[b].available_copies = 1
      /\ borrow_book(Store, A, b, now).ok
      /\ borrow_book(Store, B, b, now).ok ) =>
    LET first == borrow_book(Store, A, b, now)
        S1 == first.store
        refused == borrow_book(S1, B, b, now)
        back == return_book(refused.store, first.value, now + 20 * 24)
        S2 == back.store
        second == borrow_book(S2, B, b, now + 20 * 24)
    IN /\ S1.books[b].available_copies = 0
       /\ ~S1.books[b].is_available
       /\ ~refused.ok /\ refused.value = "Book not available"
       /\ refused.store = S1
       /\ back.ok /\ back.value = 6
       /\ S2.transactions[first.value].fine = 6
       /\ S2.books[b].available_copies = 1
       /\ S2.books[b].is_available
       /\ second.ok
       /\ second.store.transactions[second.value].member_id = B
       /\ second.store.books[b].available_copies = 0

(* The end of the scenario: the only copy of a book was lent to one        *)
(* member, returned 20 days later for a fine of 6, and is now lent to      *)
(* another member.                                                         *)
C10_Witness ==
  \E b \in DOMAIN books, t, u \in DOMAIN transactions :
    /\ books[b].total_copies = 1
    /\ transactions[t].book_id = b /\ transactions[u].book_id = b
    /\ transactions[t].member_id # transactions[u].member_id
    /\ transactions[t].return_date = transactions[t].borrow_date + 20 * 24
    /\ transactions[t].fine = 6
    /\ transactions[u].return_date = None
    /\ transactions[u].borrow_date = transactions[t].return_date
    /\ books[b].available_copies = 0 /\ ~books[b].is_available

C12_DeleteOnlyWithoutOpenLoans ==
  \A b \in DOMAIN books :
    LET r == delete_book(Store, b)
    IN /\ OpenOfBook(Store, b) # {} =>
            /\ ~r.ok /\ r.raised = ""
            /\ b \in DOMAIN r.store.books
            /\ r.store = Store
       /\ OpenOfBook(Store, b) = {} =>
            /\ r.ok /\ r.raised = "" /\ r.saved
            /\ DOMAIN r.store.books = DOMAIN books \ {b}
            /\ \A x \in DOMAIN books \ {b} : r.store.books[x] = books[x]
            /\ r.store.members = members
            /\ r.store.transactions = transactions

(* Book 1000 was lent, returned and then deleted, while book 1001 is on    *)
(* loan and its deletion is refused.                                       *)
C12_Witness ==
  /\ 1000 \notin DOMAIN books
  /\ \E t \in DOMAIN transactions :
       transactions[t].book_id = 1000 /\ transactions[t].return_date # None
  /\ 1001 \in DOMAIN books
  /\ OpenOfBook(Store, 1001) # {}
  /\ ~delete_book(Store, 1001).ok

(* C13: the result of delete_book tells an unknown book id (NotFound) from *)
(* a book blocked by an open transaction (Conflict): the two results are   *)
(* different values.                                                       *)
C13_DeleteFailuresDiffer ==
  \A unknown \in BookIdsIn, blocked \in BookIdsIn :
    ( /\ unknown \notin DOMAIN books
      /\ blocked \in DOMAIN books
      /\ OpenOfBook(Store, blocked) # {} ) =>
    /\ ~delete_book(Store, unknown).ok
    /\ ~delete_book(Store, blocked).ok
    /\ delete_book(Store, unknown).value # delete_book(Store, blocked).value

(* C14: pay_membership_fee on an existing member sets the expiry date to   *)
(* the time of payment plus 365 days and the last payment date to the time *)
(* of payment, whatever the expiry date was: a second payment does not     *)
(* stack on the first, and the new expiry date is never earlier than 365   *)
(* days after the call was made.                                           *)
C14_PaySetsExpiryFromNow ==
  \A m \in DOMAIN members, t2 \in {i \in FeeInstants : i >= now} :
    LET r == pay_membership_fee(members, m, now, t2)
        twice == pay_membership_fee(r.members, m, t2, t2)
    IN /\ r.ok /\ r.saved
       /\ r.members[m].membership_expiry_date = now + 365 * 24
       /\ r.members[m].membership_expiry_date >= now + 365 * 24
       /\ now <= r.members[m].last_fee_payment_date
       /\ r.members[m].last_fee_payment_date <= t2
       /\ r.members[m].annual_membership_fee
            = members[m].annual_membership_fee
       /\ \A x \in DOMAIN members \ {m} : r.members[x] = members[x]
       /\ twice.ok
       /\ twice.members[m].membership_expiry_date = t2 + 365 * 24
       /\ twice.members[m].last_fee_payment_date = t2

(* Two payments: one member paid at the start and has 365 days from then,  *)
(* which is less than the 400 days a file can hold, and the other paid a   *)
(* day later and has 365 days from then.                                   *)
C14_Witness ==
  /\ DOMAIN members = {100, 101}
  /\ members[100].last_fee_payment_date = 0
  /\ members[100].membership_expiry_date = 365 * 24
  /\ members[100].membership_expiry_date < 400 * 24
  /\ members[101].last_fee_payment_date = 24
  /\ members[101].membership_expiry_date = 24 + 365 * 24

(* C15: check_membership_status reports Active exactly when the member     *)
(* exists and now <= membership_expiry_date, the expiry instant included,  *)
(* Expired exactly when the member exists and now > membership_expiry_date *)
(* and NotFound for an unknown id, and changes nothing.                    *)
C15_StatusByExpiry ==
  \A m \in FeeMemberIdsIn :
    LET r == check_membership_status(members, m, now)
    IN /\ r.members = members /\ ~r.saved
       /\ r.value \in {"Active", "Membership expired", "Member not found"}
       /\ (r.ok /\ r.value = "Active") <=>
            (m \in DOMAIN members
               /\ now <= members[m].membership_expiry_date)
       /\ (~r.ok /\ r.value = "Membership expired") <=>
            (m \in DOMAIN members
               /\ now > members[m].membership_expiry_date)
       /\ (~r.ok /\ r.value = "Member not found") <=>
            m \notin DOMAIN members

(* The expiry instant of a member who paid a year ago and is Active,       *)
(* while the other member's membership is past its expiry date and         *)
(* reported Expired, and an unknown id is reported not found.              *)
C15_Witness ==
  \E m \in DOMAIN members, x \in DOMAIN members :
    /\ members[m].last_fee_payment_date = 0
    /\ members[m].membership_expiry_date = 365 * 24
    /\ now = members[m].membership_expiry_date
    /\ check_membership_status(members, m, now).value = "Active"
    /\ now > members[x].membership_expiry_date
    /\ check_membership_status(members, x, now).value = "Membership expired"
    /\ check_membership_status(members, 102, now).value = "Member not found"

(* C16: update_member_fee changes only annual_membership_fee of the named  *)
(* member; check_membership_status and get_members_with_fee_status change  *)
(* nothing; update_member_fee and pay_membership_fee on an unknown id      *)
(* return False and change nothing: the expiry and last payment dates      *)
(* change through pay_membership_fee alone.                                *)
C16_FeeFrame ==
  /\ \A m \in FeeMemberIdsIn, f \in FeesIn :
       LET r == update_member_fee(members, m, f)
       IN IF m \in DOMAIN members
            THEN /\ r.ok
                 /\ DOMAIN r.members = DOMAIN members
                 /\ r.members[m].annual_membership_fee = f
                 /\ r.members[m].membership_expiry_date
                      = members[m].membership_expiry_date
                 /\ r.members[m].last_fee_payment_date
                      = members[m].last_fee_payment_date
                 /\ r.members[m].borrowed_books = members[m].borrowed_books
                 /\ r.members[m].is_active = members[m].is_active
                 /\ \A x \in DOMAIN members \ {m} :
                      r.members[x] = members[x]
            ELSE ~r.ok /\ r.value = "False" /\ r.members = members
                 /\ ~r.saved
  /\ \A m \in FeeMemberIdsIn \ DOMAIN members,
        t2 \in {i \in FeeInstants : i >= now} :
       LET r == pay_membership_fee(members, m, now, t2)
       IN ~r.ok /\ r.value = "False" /\ r.members = members /\ ~r.saved
  /\ \A m \in FeeMemberIdsIn :
       /\ check_membership_status(members, m, now).members = members
       /\ ~check_membership_status(members, m, now).saved
  /\ get_members_with_fee_status(members, now).members = members
  /\ ~get_members_with_fee_status(members, now).saved

(* A member whose fee was changed to 75 a year after the start and whose   *)
(* dates are still those of the file, now past the expiry date.            *)
C16_Witness ==
  \E m \in DOMAIN members :
    /\ members[m].annual_membership_fee = 75
    /\ members[m].membership_expiry_date = 24
    /\ members[m].last_fee_payment_date = (1 - 365) * 24
    /\ now = 365 * 24
    /\ disk.exists
    /\ disk.data.members[m].annual_membership_fee = 75
    /\ ~update_member_fee(members, 102, 75).ok

(* What one step may do to the ids: no counter goes back, an id that       *)
(* appears is the value its counter had and the counter moves past it,     *)
(* every id in use is below its counter, and a transaction id keeps        *)
(* naming the same member and book.                                        *)
IdsStep ==
  /\ book_counter' >= book_counter
  /\ member_counter' >= member_counter
  /\ transaction_counter' >= transaction_counter
  /\ \A b \in DOMAIN books' \ DOMAIN books :
       b = book_counter /\ book_counter' = b + 1
  /\ \A m \in DOMAIN members' \ DOMAIN members :
       m = member_counter /\ member_counter' = m + 1
  /\ \A t \in DOMAIN transactions' \ DOMAIN transactions :
       t = transaction_counter /\ transaction_counter' = t + 1
  /\ \A b \in DOMAIN books' : b < book_counter'
  /\ \A m \in DOMAIN members' : m < member_counter'
  /\ \A t \in DOMAIN transactions' : t < transaction_counter'
  /\ \A t \in DOMAIN transactions \cap DOMAIN transactions' :
       /\ transactions'[t].member_id = transactions[t].member_id
       /\ transactions'[t].book_id = transactions[t].book_id

(* C17: the ids add_book, register_member and borrow_book give are unique  *)
(* within their kind and never given again, not after delete_book removed  *)
(* the book that held one, and not after the store was saved and loaded    *)
(* again by a new instance: the counters survive the restart.              *)
C17_IdsNeverReused == [][IdsStep]_vars

(* Book 1000 was lent, returned and deleted and book 1001 added after it;  *)
(* a new instance loads the same store and counters from the file and      *)
(* gives its next book the id 1002.                                        *)
C17_Witness ==
  /\ 1000 \notin DOMAIN books
  /\ \E t \in DOMAIN transactions : transactions[t].book_id = 1000
  /\ 1001 \in DOMAIN books
  /\ book_counter = 1002
  /\ disk.exists
  /\ load_data(EmptyStore, disk) = Store
  /\ add_book(load_data(EmptyStore, disk), 1).value = 1002
  /\ delete_book(Store, 1000).store.book_counter = 1002

(* C18: in every state reached through add_book, borrow_book, return_book  *)
(* and delete_book, every book has is_available = (available_copies > 0),  *)
(* a book just created with total_copies = 0 included.                     *)
C18_FlagMatchesCopies ==
  \A b \in DOMAIN books :
    books[b].is_available = (books[b].available_copies > 0)

(* C19: in every state reached through add_book, given any integer,        *)
(* borrow_book, return_book and delete_book, every book has                *)
(* total_copies >= 0 and 0 <= available_copies <= total_copies.            *)
C19_CopiesInRange ==
  \A b \in DOMAIN books :
    /\ books[b].total_copies >= 0
    /\ 0 <= books[b].available_copies
    /\ books[b].available_copies <= books[b].total_copies

(* The ids in a list, as a set. *)
ListItems(s) == {s[i] : i \in 1..Len(s)}

(* C20: in every state reached through register_member, add_book,          *)
(* delete_book, borrow_book and return_book, each member's borrowed_books  *)
(* holds exactly the ids of that member's open transactions, each once,    *)
(* so that its length is the member's number of open transactions.         *)
C20_BorrowedBooksAreOpenLoans ==
  \A m \in DOMAIN members :
    /\ ListItems(members[m].borrowed_books) = OpenOfMember(Store, m)
    /\ \A i, j \in 1..Len(members[m].borrowed_books) :
         members[m].borrowed_books[i] = members[m].borrowed_books[j] => i = j
    /\ Len(members[m].borrowed_books) = Cardinality(OpenOfMember(Store, m))
    /\ \A t \in ListItems(members[m].borrowed_books) :
         /\ t \in DOMAIN transactions
         /\ transactions[t].member_id = m
         /\ transactions[t].return_date = None

(* Member 100 made the first three loans and returned the second, member   *)
(* 101 made the fourth: the lists hold the open ones of each.              *)
C20_Witness ==
  /\ DOMAIN members = {100, 101}
  /\ DOMAIN transactions = 10000 .. 10003
  /\ transactions[10001].member_id = 100
  /\ transactions[10001].return_date # None
  /\ members[100].borrowed_books = <<10000, 10002>>
  /\ members[101].borrowed_books = <<10003>>

(* What one step may do to the transactions: none disappears; the member,  *)
(* the book, the borrow date and the due date of one never change; an open *)
(* one has no fine and either stays as it is or is stamped with the        *)
(* current time and a fine that is not negative; a returned one stays as   *)
(* it is; a new one is open, without a fine, borrowed at the current time  *)
(* and due 14 days later.                                                  *)
TransactionStep ==
  /\ \A t \in DOMAIN transactions :
       /\ t \in DOMAIN transactions'
       /\ LET old == transactions[t]
              new == transactions'[t]
          IN /\ new.member_id = old.member_id
             /\ new.book_id = old.book_id
             /\ new.borrow_date = old.borrow_date
             /\ new.due_date = old.due_date
             /\ old.due_date = old.borrow_date + 14 * 24
             /\ old.fine >= 0
             /\ old.return_date = None =>
                  /\ old.fine = 0
                  /\ \/ new = old
                     \/ /\ new.return_date = now /\ new.return_date # None
                        /\ new.fine >= 0
             /\ old.return_date # None => new = old
  /\ \A t \in DOMAIN transactions' \ DOMAIN transactions :
       LET new == transactions'[t]
       IN /\ new.return_date = None /\ new.fine = 0
          /\ new.borrow_date = now
          /\ new.due_date = new.borrow_date + 14 * 24

(* C21: a transaction is immutable but for one transition: its member,     *)
(* book, borrow date and due date (the borrow date plus 14 days) never     *)
(* change; its return date goes from None to a time stamp at most once and *)
(* is never cleared or stamped again; its fine is 0 while it is open, is   *)
(* set only by the return, is never negative and never changes afterwards. *)
C21_TransactionsImmutable == [][TransactionStep]_vars

(* A transaction returned four days late, with its fine, some time after   *)
(* the return, next to one that is still open.                             *)
C21_Witness ==
  \E t, u \in DOMAIN transactions :
    /\ transactions[t].return_date # None
    /\ transactions[t].return_date < now
    /\ transactions[t].fine > 0
    /\ transactions[u].return_date = None
    /\ transactions[u].fine = 0

(* C22: no operation other than borrow_book and return_book changes the    *)
(* available_copies of an existing book and none changes its total_copies; *)
(* in particular update_book, whatever attributes it is given, leaves the  *)
(* two as they were.                                                       *)
C22_UpdateBookKeepsCopies ==
  \A b \in DOMAIN books, u \in BookUpdatesIn :
    LET S == update_book(Store, b, u[1], u[2]).store
    IN /\ S.books[b].available_copies = books[b].available_copies
       /\ S.books[b].total_copies = books[b].total_copies

(* C23: to_dict followed by from_dict gives back every book, member and    *)
(* transaction of the store field by field (open and returned              *)
(* transactions, members without and with the fee attributes), and a       *)
(* store that is saved, loaded by a new instance and saved again leaves    *)
(* the same snapshot as the first time.                                    *)
C23_RoundTrip ==
  /\ \A b \in DOMAIN books : BookFromDict(BookToDict(books[b])) = books[b]
  /\ \A m \in DOMAIN members :
       MemberFromDict(MemberToDict(members[m])) = members[m]
  /\ \A t \in DOMAIN transactions :
       TransactionFromDict(TransactionToDict(transactions[t]))
         = transactions[t]
  /\ load_data(EmptyStore, Snapshot(Store)) = Store
  /\ Snapshot(load_data(EmptyStore, Snapshot(Store))) = Snapshot(Store)
  /\ \A data \in FeeMemberDictsIn
                   \cup {MemberToDict(members[m]) : m \in DOMAIN members} :
       LET member == FeeMemberFromDict(data, now)
           t2 == now + 1
           M == [k \in {InitialMemberCounter} |-> member]
       IN /\ FeeMemberFromDict(FeeMemberToDict(member), t2) = member
          /\ fee_load_data(<<>>, FeeSnapshot(M), t2) = M
          /\ FeeSnapshot(fee_load_data(<<>>, FeeSnapshot(M), t2))
               = FeeSnapshot(M)

(* A saved store with an open transaction, one returned late with its fine *)
(* and a member who holds a loan.                                          *)
C23_Witness ==
  /\ disk = Snapshot(Store)
  /\ \E t, u \in DOMAIN transactions :
       /\ transactions[t].return_date = None
       /\ transactions[u].return_date # None
       /\ transactions[u].fine > 0
       /\ disk.data.transactions[t].return_date = Null
       /\ disk.data.transactions[u].return_date
            = IsoFormat(transactions[u].return_date)
       /\ members[transactions[t].member_id].borrowed_books # <<>>

(* C24: every operation that changes the store saves a full snapshot       *)
(* before it returns, so between operations the file holds exactly the     *)
(* books, members, transactions and counters in memory, and a new instance *)
(* that loads it starts from exactly that store.                           *)
C24_FileMatchesMemory ==
  /\ disk.exists => disk = Snapshot(Store)
  /\ ~disk.exists => Store = EmptyStore
  /\ load_data(EmptyStore, disk) = Store

(* C25: when save_data raises inside borrow_book or return_book, the store *)
(* in memory holds the whole effect of the operation (the transaction, the *)
(* copy count and the member's list together, never a part of them) and    *)
(* the caller gets the exception, which is none of the results of a failed *)
(* check and not a success.                                                *)
C25_SaveFailureKeepsEffect ==
  /\ \A m \in MemberIdsIn, b \in BookIdsIn :
       BorrowCheck(Store, m, b) = "" =>
         LET r == SaveRaises(borrow_book(Store, m, b, now))
             S == r.store
             t == transaction_counter
         IN /\ r.raised # "" /\ ~r.ok /\ ~r.saved
            /\ r.value = "" /\ r.value \notin BorrowRefusals
            /\ DOMAIN S.transactions = DOMAIN transactions \cup {t}
            /\ t \notin DOMAIN transactions
            /\ S.transactions[t] = Transaction(m, b, now, now + 14 * 24)
            /\ S.books[b].available_copies = books[b].available_copies - 1
            /\ S.books[b].is_available = (S.books[b].available_copies # 0)
            /\ S.members[m].borrowed_books
                 = Append(members[m].borrowed_books, t)
            /\ S.transaction_counter = t + 1
  /\ \A t \in TransactionIdsIn :
       ReturnCheck(Store, t) = "" =>
         LET r == SaveRaises(return_book(Store, t, now))
             S == r.store
             m == transactions[t].member_id
             b == transactions[t].book_id
         IN /\ r.raised # "" /\ ~r.ok /\ ~r.saved
            /\ r.value = ""
            /\ r.value \notin {"Invalid transaction ID",
                               "Book already returned"}
            /\ S.transactions[t].return_date = now
            /\ S.transactions[t].fine = Fine(now, transactions[t].due_date)
            /\ S.books[b].available_copies = books[b].available_copies + 1
            /\ S.books[b].is_available
            /\ ~ListHas(S.members[m].borrowed_books, t)
            /\ Len(S.members[m].borrowed_books)
                 = Len(members[m].borrowed_books) - 1

(* After a borrow whose save raised: the member holds a loan of the last   *)
(* copy that the file, still readable, does not have.                      *)
C25_Witness ==
  \E t \in DOMAIN transactions :
    LET m == transactions[t].member_id
        b == transactions[t].book_id
    IN /\ transactions[t].return_date = None
       /\ ListHas(members[m].borrowed_books, t)
       /\ books[b].available_copies = 0 /\ ~books[b].is_available
       /\ disk.exists /\ disk # Truncated
       /\ t \notin DOMAIN disk.data.transactions
       /\ disk.data.books[b].available_copies = 1

(* The requests being served that are at statement pc for book b. *)
HandlersAt(pcs, b) ==
  {h \in InFlight : handlers[h].pc \in pcs /\ handlers[h].book_id = b}

(* C26: the borrow handler of app.py checks available_copies > 0 and takes *)
(* the copy in separate steps under no lock: a request that has passed the *)
(* check takes a copy whatever the count has become since, every           *)
(* transaction made costs the book one copy, and so two requests for the   *)
(* last copy of a book both succeed and leave available_copies at -1 with  *)
(* two open transactions; two requests at a time take it no lower.         *)
C26_BothTakeTheLastCopy ==
  /\ \A h \in InFlight :
       LET me == handlers[h]
           b == me.book_id
           m == me.member_id
       IN (\/ me.pc = "create"
           \/ /\ me.pc = "limit"
              /\ Len(members[m].borrowed_books) < BorrowLimit) =>
            LET r == BorrowFinish(App, h, now)
            IN /\ r.response = "redirect"
               /\ r.app.books[b].available_copies
                    = books[b].available_copies - 1
               /\ Cardinality(OpenOfBook(r.app, b))
                    = Cardinality(OpenOfBook(App, b)) + 1
  /\ \A b \in DOMAIN books :
       /\ books[b].available_copies
            = books[b].total_copies - Cardinality(OpenOfBook(App, b))
                + Cardinality(HandlersAt({"take"}, b))
       /\ books[b].available_copies >= 1 - AppHandlers

(* Both requests are through: a book of one copy has -1 available and two  *)
(* open transactions.                                                      *)
C26_Witness ==
  \E b \in DOMAIN books :
    /\ InFlight = {}
    /\ books[b].total_copies = 1
    /\ books[b].available_copies = -1
    /\ Cardinality(OpenOfBook(App, b)) = 2
    /\ disk = AppSnapshot(App)

(* C27: the handler checks len(borrowed_books) < 3 and appends in separate *)
(* steps under no lock: a request that has passed the check appends its    *)
(* transaction however long the list has become since, and so two requests *)
(* of a member with two loans both succeed and leave the member with four  *)
(* open transactions; two requests at a time leave no more.                *)
C27_BothPassTheLimit ==
  /\ \A h \in InFlight :
       LET me == handlers[h]
           m == me.member_id
       IN me.pc = "create" =>
            LET r == BorrowFinish(App, h, now)
                id == Uuid(DOMAIN transactions)
            IN /\ r.response = "redirect"
               /\ r.app.members[m].borrowed_books
                    = Append(members[m].borrowed_books, id)
               /\ r.app.transactions[id].member_id = m
               /\ r.app.transactions[id].return_date = None
  /\ \A m \in DOMAIN members :
       /\ Len(members[m].borrowed_books) <= BorrowLimit + AppHandlers - 1
       /\ Cardinality(OpenOfMember(App, m)) <= BorrowLimit + AppHandlers - 1

(* Both requests are through: a member holds four open transactions. *)
C27_Witness ==
  \E m \in DOMAIN members :
    /\ InFlight = {}
    /\ Len(members[m].borrowed_books) = 4
    /\ Cardinality(OpenOfMember(App, m)) = 4
    /\ disk = AppSnapshot(App)

(* C28: a member record without the fee attributes loads without error and *)
(* gets what a new member has: a fee of 50, an expiry date 365 days after  *)
(* the load and a last payment date equal to the load time, so that        *)
(* check_membership_status says Active right after the load; this holds    *)
(* for Member.from_dict of library_system_updated.py and of app.py.        *)
C28_LegacyMemberGetsDefaults ==
  \A data \in {d \in FeeMemberDictsIn :
                 "membership_expiry_date" \notin DOMAIN d},
     t \in {now} :
    LET loaded == FeeMemberFromDict(data, t)
        served == AppMemberFromDict(data, t)
        M == [k \in {InitialMemberCounter} |-> loaded]
    IN /\ served.annual_membership_fee = 50
       /\ served.membership_expiry_date = t + 365 * 24
       /\ served.last_fee_payment_date = t
       /\ loaded.annual_membership_fee = 50
       /\ loaded.last_fee_payment_date = t
       /\ loaded.membership_expiry_date = t + 365 * 24
       /\ \A later \in {t, t + 1} :
            check_membership_status(M, InitialMemberCounter, later).value
              = "Active"

(* The store with the fee attributes of member m replaced. *)
WithFeeState(A, m, fee, expiry, paid) ==
  [A EXCEPT !.members[m].annual_membership_fee = fee,
            !.members[m].membership_expiry_date = expiry,
            !.members[m].last_fee_payment_date = paid]

(* A borrow request of member m for book b served alone by handler h. *)
BorrowAlone(A, h, m, b) == BorrowFinish(BorrowBegin(A, h, m, b), h, now)

(* C29: the outcome of a borrow does not depend on the member's fee state: *)
(* on two stores that differ only in a member's fee, expiry date and last  *)
(* payment date the same request gets the same response and makes the same *)
(* changes, and a member with is_active true whose membership has expired  *)
(* can still borrow.                                                       *)
C29_BorrowIgnoresFeeState ==
  \A h \in DOMAIN handlers \ InFlight, m \in DOMAIN members,
     b \in AppBookIdsIn, fee \in FeesIn,
     expiry \in {now - HoursPerDay, now + YearDays * HoursPerDay} :
    LET A2 == WithFeeState(App, m, fee, expiry, now - HoursPerDay)
        r1 == BorrowAlone(App, h, m, b)
        r2 == BorrowAlone(A2, h, m, b)
    IN /\ r2.response = r1.response
       /\ r2.app.books = r1.app.books
       /\ r2.app.transactions = r1.app.transactions
       /\ r2.app.handlers = r1.app.handlers
       /\ r2.app.members
            = WithFeeState(r1.app, m, fee, expiry, now - HoursPerDay).members
       /\ BorrowCheck(A2, m, b) = BorrowCheck(App, m, b)
       /\ (/\ b \in DOMAIN books
           /\ books[b].available_copies > 0
           /\ Len(members[m].borrowed_books) < BorrowLimit
           /\ members[m].is_active) =>
            /\ r2.response = "redirect"
            /\ Len(r2.app.members[m].borrowed_books)
                 = Len(members[m].borrowed_books) + 1

(* A member and a book with a copy left, no request being served: the      *)
(* member borrows it, and would with a membership that expired yesterday.  *)
C29_Witness ==
  \E m \in DOMAIN members, b \in DOMAIN books, h \in DOMAIN handlers :
    /\ InFlight = {}
    /\ books[b].available_copies > 0
    /\ members[m].borrowed_books # <<>>
    /\ members[m].membership_expiry_date > now
    /\ BorrowAlone(WithFeeState(App, m, DefaultFee, now - HoursPerDay,
                                now - HoursPerDay), h, m, b).response
         = "redirect"

(* C30: the borrow limit holds through option 3 of the console menu too: a *)
(* member with 3 open transactions cannot obtain a fourth.                 *)
C30_CliKeepsTheLimit ==
  \A m \in DOMAIN members :
    /\ Cardinality(OpenOfMember(App, m)) <= 3
    /\ Cardinality(OpenOfMember(App, m)) = 3 =>
         \A b \in AppBookIdsIn :
           cli_borrow(App, m, b, now).printed # "Book borrowed successfully."

(* C31: a return made through option 4 of the console menu after the due   *)
(* date writes on the transaction the fine return_book would (the whole    *)
(* days overdue times 1.00), so every closed transaction that was returned *)
(* late carries its fine.                                                  *)
C31_CliReturnRecordsFine ==
  \A t \in DOMAIN transactions :
    transactions[t].return_date # None =>
      transactions[t].fine
        = Fine(transactions[t].return_date, transactions[t].due_date)

(* The store of app.py as library_system.py holds it: the members without  *)
(* the fee attributes, and counters that make the next ids those app.py    *)
(* would draw.                                                             *)
ToEngine(A) ==
  [books |-> A.books,
   members |-> [k \in DOMAIN A.members |->
                  [borrowed_books |-> A.members[k].borrowed_books,
                   is_active |-> A.members[k].is_active]],
   transactions |-> A.transactions,
   book_counter |-> Uuid(DOMAIN A.books),
   member_counter |-> Uuid(DOMAIN A.members),
   transaction_counter |-> Uuid(DOMAIN A.transactions)]

(* The kind of result a handler's response and a method's result tell. *)
ResponseKind(response) ==
  IF response = "redirect" THEN "Ok"
  ELSE IF response \in {"500 KeyError", "500 ValueError"} THEN "Raised"
  ELSE IF response = "Invalid member or book ID" THEN "NotFound"
  ELSE IF response = "Member account is inactive" THEN "MemberInactive"
  ELSE IF response = "Book not available" THEN "BookUnavailable"
  ELSE IF response = "Member has reached maximum borrowing limit"
    THEN "BorrowLimitExceeded"
  ELSE response

ReturnKind(r) ==
  IF r.raised # "" THEN "Raised" ELSE IF r.ok THEN "Ok" ELSE r.value

(* A return request for transaction t served alone by handler h at time    *)
(* later.                                                                  *)
ReturnAlone(A, h, t, later) == ReturnFinish(ReturnBegin(A, h, t), h, later)

SameChanges(A, S) ==
  /\ A.books = S.books
  /\ ToEngine(A).members = S.members
  /\ A.transactions = S.transactions

C33_ReturnOfOpenLoanSucceeds ==
  \A t \in DOMAIN transactions :
    transactions[t].return_date = None =>
      LET r == return_book(Store, t, now)
          m == transactions[t].member_id
          b == transactions[t].book_id
      IN /\ b \in DOMAIN books
         /\ m \in DOMAIN members
         /\ ListHas(members[m].borrowed_books, t)
         /\ r.ok /\ r.raised = "" /\ r.saved
         /\ r.store.transactions[t].return_date = now
         /\ ~ListHas(r.store.members[m].borrowed_books, t)
         /\ r.store.books[b].available_copies
              = books[b].available_copies + 1

(* A member whose account was closed while a loan was out, next to a book  *)
(* that was deleted once its loan was returned.                            *)
C33_Witness ==
  /\ \E t \in DOMAIN transactions :
       /\ transactions[t].return_date = None
       /\ ~members[transactions[t].member_id].is_active
       /\ return_book(Store, t, now).ok
  /\ \E u \in DOMAIN transactions :
       /\ transactions[u].return_date # None
       /\ transactions[u].book_id \notin DOMAIN books

(* C34: when two return requests for the same open transaction are served  *)
(* at once by app.py, the book gets one copy back at most and never has    *)
(* more available copies than total copies, and the transaction id is      *)
(* removed from the member's borrowed_books once, without a fault: no      *)
(* request reaches the remove statement with the id already gone.          *)
C34_ConcurrentReturnOnce ==
  /\ \A b \in DOMAIN books :
       books[b].available_copies <= books[b].total_copies
  /\ \A h \in InFlight :
       handlers[h].pc = "r_remove" =>
         LET id == handlers[h].transaction_id
         IN /\ ListHas(members[transactions[id].member_id].borrowed_books, id)
            /\ ReturnStep(App, h, now).response # "500 ValueError"

(* C35: load_data is all-or-nothing: on a snapshot that is malformed       *)
(* part-way the store it leaves is the whole snapshot or the empty store   *)
(* with the default counters, never a part of the file, so that every id   *)
(* in the store is below its counter and no later add_book or borrow_book  *)
(* makes an id that names a loaded entity.                                 *)
C35_LoadAllOrNothing ==
  /\ LET S == load_data(EmptyStore, disk)
     IN S = EmptyStore \/ (disk.exists /\ disk = Snapshot(S))
  /\ \A b \in DOMAIN books : b < book_counter
  /\ \A m \in DOMAIN members : m < member_counter
  /\ \A t \in DOMAIN transactions : t < transaction_counter

====
